---- MODULE Spec2Model ----
(***************************************************************************)
(* Token-bucket rate limiters of the repository.                           *)
(*                                                                         *)
(*   TokenBucketRateLimiter  src/deepseek-r1/rate-limiter/run-010          *)
(*   TokenBucket             src/deepseek-r1/rate-limiter/run-009          *)
(*                                                                         *)
(* Numbers.  Date.now() is in milliseconds and a refill adds               *)
(* (elapsedMs / 1000) * refillRate tokens.  Every token amount of the      *)
(* model (tokens, capacity, initialTokens, requested amounts, consumed) is *)
(* the source's amount multiplied by Scale = 1000, so that a refill adds   *)
(* elapsedMs * refillRate units and all arithmetic is exact on integers.   *)
(* refillRate stays in tokens per second.  Rounding of IEEE doubles is not *)
(* modelled.                                                               *)
(***************************************************************************)
EXTENDS Integers, Sequences, FiniteSets, TLC

\* ------------------------------------------------------------------ bounds
MaxCap      == 2  \* largest capacity tried, in whole tokens
MaxTicks    == 1  \* Date.now() takes the values 0 .. MaxTicks half seconds
MaxBlocked  == 1  \* no further check on a bucket that has this many denials
MaxConsumed == 2  \* ... or from which this many whole tokens were consumed
MaxPending  == 1  \* TokenBucket callbacks waiting to run at any time
MaxObjects  == 2  \* TokenBucket objects a UserRateLimiter makes
DistCalls   == 3  \* concurrent DistributedTokenBucket.tryConsume calls
BurstCalls  == 3  \* calls issued together in a burst

\* ------------------------------------------------------- program constants
Scale == 1000     \* milliseconds per second: the "/ 1000" of the refill

HalfSecond == Scale \div 2
Times == {i * HalfSecond : i \in 0..MaxTicks}
\* refill rates tried, tokens per second
Rates == {1, 2}

Min(a, b) == IF a <= b THEN a ELSE b
\* Math.ceil(x / d) for d > 0
CeilDiv(x, d) == -((-x) \div d)

\* ------------------------------------------------------------------ inputs
Keys == {"k1"}
EmptyKey == ""
KeyInputs == Keys \cup {EmptyKey}

\* TokenBucketConfig (run-010): config = undefined is given = FALSE,
\* initialTokens = undefined is hasInit = FALSE.
MkConfig(cap, rate, hasInit, init) ==
  [given |-> TRUE, capacity |-> cap, refillRate |-> rate,
   hasInit |-> hasInit, initialTokens |-> init]
NoConfig ==
  [given |-> FALSE, capacity |-> 0, refillRate |-> 0,
   hasInit |-> FALSE, initialTokens |-> 0]

\* the configurations validateConfig accepts ...
ValidConfigInputs ==
  {MkConfig(c * Scale, r, FALSE, 0) : c \in 1..MaxCap, r \in Rates}
  \cup {cf \in {MkConfig(c * Scale, 1, TRUE, i * Scale) :
                  c \in 1..MaxCap, i \in 0..MaxCap} :
          cf.initialTokens <= cf.capacity}
\* ... and one of every kind it rejects
InvalidConfigInputs ==
  {MkConfig(0, 1, FALSE, 0), MkConfig(-Scale, 1, TRUE, -Scale),
   MkConfig(Scale, 0, FALSE, 0), MkConfig(Scale, -1, TRUE, Scale),
   MkConfig(Scale, 1, TRUE, -Scale),
   MkConfig(MaxCap * Scale, 1, TRUE, (MaxCap + 1) * Scale)}
ConfigInputs == ValidConfigInputs \cup InvalidConfigInputs
OptConfigInputs == ConfigInputs \cup {NoConfig}

\* requested / added amounts: negative, zero, one token, the largest capacity
\* and one token more
AmountInputs == {-Scale, 0, Scale, MaxCap * Scale, (MaxCap + 1) * Scale}

\* --------------------------------------------------------- error messages
ErrNone        == "none"
ErrKey         == "Bucket key must be a non-empty string"
ErrTokens      == "Tokens required must be greater than 0"
ErrCapacity    == "Capacity must be greater than 0"
ErrRefillRate  == "Refill rate must be greater than 0"
ErrInitNeg     == "Initial tokens cannot be negative"
ErrInitExceeds == "Initial tokens cannot exceed capacity"
ErrNoBucketNoConfig == "Bucket does not exist and no configuration provided"
ErrNoBucket    == "Bucket does not exist"
ErrAddTokens   == "Tokens must be a positive number"

ErrConsume     == "Tokens to consume must be greater than 0"
ErrExceeds     == "Cannot consume tokens, exceeds capacity"
ErrAdd         == "Tokens to add must be greater than 0"
ErrFuture      == "Last refill time cannot be in the future"

ConfigErrors == {ErrCapacity, ErrRefillRate, ErrInitNeg, ErrInitExceeds}

VARIABLES
  subject,   \* the object a run exercises: the two classes share no state
  now,       \* the value Date.now() returns
  buckets,   \* TokenBucketRateLimiter.buckets: Map<string, BucketStats>
  tb,        \* the fields of one TokenBucket (alive: it has been constructed)
  tbQueue,   \* the callbacks passed to this.lock.then, not yet run, in order
  ret,       \* what the last call returned or threw
  tally,     \* calls issued, allowed and denied in a burst (SpecBurst);
             \* the tokens granted since a moment of the run (SpecRate)
  \* UserRateLimiter (run-009)
  defaults,    \* defaultCapacity and defaultRefillRate
  heap,        \* the TokenBucket objects made so far: heap[i] is object i
  userBuckets, \* userBuckets: Map<string, TokenBucket>, user id to object
  microtasks,  \* the tryConsume callbacks waiting to run, oldest first
  lastObj,     \* the object the last callback ran on (0: none has run)
  \* DistributedTokenBucket instances over one InMemoryStorage (run-009)
  instances,   \* the constructed instances: the key and config of each
  storage,     \* InMemoryStorage.storage: Map<string, TokenBucketState>
  locks,       \* InMemoryStorage.locks: Map<string, boolean>
  procs,       \* the tryConsume calls: where each is and what it has read
  \* URLShortener (src/unnamed/part_005)
  urlMap,               \* urlMap: Map<string, ShortenedUrl>, by id
  codeToIdMap,          \* codeToIdMap: Map<string, string>
  originalUrlToCodeMap, \* originalUrlToCodeMap: Map<string, string>
  inflight              \* the shorten calls suspended at an await

objVars == <<buckets, tb, tbQueue>>
baseVars == <<objVars, tally>>
userVars == <<defaults, heap, userBuckets, microtasks, lastObj>>
distVars == <<instances, storage, locks, procs>>
urlVars == <<urlMap, codeToIdMap, originalUrlToCodeMap, inflight>>
\* the state of the classes added to those of Spec
extVars == <<userVars, distVars, urlVars>>
vars == <<subject, now, buckets, tb, tbQueue, ret, tally, extVars>>

\* a UserRateLimiter not yet constructed
UserIdle ==
  /\ defaults = [capacity |-> 0, refillRate |-> 0]
  /\ heap = << >>
  /\ userBuckets = << >>
  /\ microtasks = << >>
  /\ lastObj = 0
\* no DistributedTokenBucket constructed, an empty InMemoryStorage
DistIdle ==
  /\ instances = << >>
  /\ storage = << >>
  /\ locks = << >>
  /\ procs = << >>
\* a URLShortener just constructed
UrlIdle ==
  /\ urlMap = << >>
  /\ codeToIdMap = << >>
  /\ originalUrlToCodeMap = << >>
  /\ inflight = << >>
\* the classes a run does not exercise stay as they are constructed
ExtIdle == UserIdle /\ DistIdle /\ UrlIdle

\* ------------------------------------------------ TokenBucketRateLimiter
\* validateConfig without the range check of initialTokens
ValidateConfigNoInitRange(config) ==
  IF config.capacity <= 0 THEN ErrCapacity
  ELSE IF config.refillRate <= 0 THEN ErrRefillRate
  ELSE ErrNone

\* validateConfig: the message of the error it throws, ErrNone when it returns
ValidateConfig(config) ==
  IF config.capacity <= 0 THEN ErrCapacity
  ELSE IF config.refillRate <= 0 THEN ErrRefillRate
  ELSE IF config.hasInit /\ config.initialTokens < 0 THEN ErrInitNeg
  ELSE IF config.hasInit /\ config.initialTokens > config.capacity
       THEN ErrInitExceeds
  ELSE ErrNone

\* validateInput without the check of tokensRequired
ValidateInputNoAmount(bucketKey, tokensRequired, config) ==
  IF bucketKey = EmptyKey THEN ErrKey
  ELSE IF config.given THEN ValidateConfig(config)
  ELSE ErrNone

\* validateInput
ValidateInput(bucketKey, tokensRequired, config) ==
  IF bucketKey = EmptyKey THEN ErrKey
  ELSE IF tokensRequired <= 0 THEN ErrTokens
  ELSE IF config.given THEN ValidateConfig(config)
  ELSE ErrNone

\* config.initialTokens || config.capacity: undefined and 0 are both falsy
InitialOrCapacity(config) ==
  IF config.hasInit /\ config.initialTokens # 0
  THEN config.initialTokens ELSE config.capacity

\* createBucket, after its validateConfig has passed.  BucketStats.createdAt,
\* which is set here to the same value as lastRefill and is read and written
\* by nothing else, is not carried in the model.
CreateBucket(config, t) ==
  [tokens |-> InitialOrCapacity(config), consumed |-> 0, blocked |-> 0,
   lastRefill |-> t, config |-> config]

\* refillBucket without Math.min
RefillBucketNoClamp(bucket, t) ==
  LET tokensToAdd == (t - bucket.lastRefill) * bucket.config.refillRate
  IN IF tokensToAdd > 0
     THEN [bucket EXCEPT !.tokens = bucket.tokens + tokensToAdd,
                         !.lastRefill = t]
     ELSE bucket

\* refillBucket without the test tokensToAdd > 0
RefillBucketSigned(bucket, t) ==
  LET tokensToAdd == (t - bucket.lastRefill) * bucket.config.refillRate
  IN [bucket EXCEPT
        !.tokens = Min(bucket.tokens + tokensToAdd, bucket.config.capacity),
        !.lastRefill = t]

\* refillBucket with the write of lastRefill lost
RefillBucketKeepsTime(bucket, t) ==
  LET tokensToAdd == (t - bucket.lastRefill) * bucket.config.refillRate
  IN IF tokensToAdd > 0
     THEN [bucket EXCEPT
             !.tokens = Min(bucket.tokens + tokensToAdd, bucket.config.capacity)]
     ELSE bucket

\* refillBucket
RefillBucket(bucket, t) ==
  LET tokensToAdd == (t - bucket.lastRefill) * bucket.config.refillRate
  IN IF tokensToAdd > 0
     THEN [bucket EXCEPT
             !.tokens = Min(bucket.tokens + tokensToAdd, bucket.config.capacity),
             !.lastRefill = t]
     ELSE bucket

\* calculateRetryAfter with Math.floor in the place of Math.ceil
CalculateRetryAfterFloor(bucket, tokensRequired) ==
  (tokensRequired - bucket.tokens) \div (bucket.config.refillRate * Scale)

\* calculateRetryAfter, in seconds
CalculateRetryAfter(bucket, tokensRequired) ==
  CeilDiv(tokensRequired - bucket.tokens, bucket.config.refillRate * Scale)

Has(bs, k) == k \in DOMAIN bs
Put(bs, k, b) == [x \in DOMAIN bs \cup {k} |-> IF x = k THEN b ELSE bs[x]]
Del(bs, k) == [x \in DOMAIN bs \ {k} |-> bs[x]]

\* the shape of ret: the call, its key, and what it returned (err = ErrNone)
\* or the message of the error it threw
Ret(op, key, err, allowed, remaining, retryAfter) ==
  [op |-> op, key |-> key, err |-> err, allowed |-> allowed,
   remaining |-> remaining, retryAfter |-> retryAfter,
   removed |-> FALSE, stats |-> << >>]
Threw(op, key, err) == Ret(op, key, err, FALSE, 0, 0)
Returned(op, key) == Ret(op, key, ErrNone, FALSE, 0, 0)

\* the consume step of check with the blocked++ of a denial lost
ConsumeNoBlocked(bucket, tokensRequired) ==
  IF bucket.tokens >= tokensRequired
  THEN [bucket EXCEPT !.tokens = @ - tokensRequired,
                      !.consumed = @ + tokensRequired]
  ELSE bucket

\* the consume step of check on the refilled bucket: lines 112-119
Consume(bucket, tokensRequired) ==
  IF bucket.tokens >= tokensRequired
  THEN [bucket EXCEPT !.tokens = @ - tokensRequired,
                      !.consumed = @ + tokensRequired]
  ELSE [bucket EXCEPT !.blocked = @ + 1]

\* check's lookup throwing on every unknown key, a config given or not
NoBucketNoConfigAlways(bs, bucketKey, config) == ~Has(bs, bucketKey)

\* the throwing branch of check's lookup: no bucket and no config to make one
NoBucketNoConfig(bs, bucketKey, config) ==
  ~Has(bs, bucketKey) /\ ~config.given

\* check(bucketKey, tokensRequired, config) at time t on the map bs:
\* the map it leaves and what it returns
CheckOp(bs, bucketKey, tokensRequired, config, t) ==
  LET verr == ValidateInput(bucketKey, tokensRequired, config) IN
  IF verr # ErrNone
  THEN [b |-> bs, r |-> Threw("check", bucketKey, verr)]
  ELSE IF NoBucketNoConfig(bs, bucketKey, config)
  THEN [b |-> bs, r |-> Threw("check", bucketKey, ErrNoBucketNoConfig)]
  ELSE
    LET bucket0  == IF Has(bs, bucketKey) THEN bs[bucketKey]
                    ELSE CreateBucket(config, t)
        refilled == RefillBucket(bucket0, t)
        allowed  == refilled.tokens >= tokensRequired
        bucket   == Consume(refilled, tokensRequired)
    IN [b |-> Put(bs, bucketKey, bucket),
        r |-> Ret("check", bucketKey, ErrNone, allowed, bucket.tokens,
                  IF allowed THEN 0
                  ELSE CalculateRetryAfter(bucket, tokensRequired))]

\* addTokens without Math.min
AddTokensOpNoClamp(bs, bucketKey, tokens) ==
  IF tokens <= 0
  THEN [b |-> bs, r |-> Threw("addTokens", bucketKey, ErrAddTokens)]
  ELSE IF ~Has(bs, bucketKey)
  THEN [b |-> bs, r |-> Threw("addTokens", bucketKey, ErrNoBucket)]
  ELSE
    LET newTokens == bs[bucketKey].tokens + tokens
    IN [b |-> Put(bs, bucketKey, [bs[bucketKey] EXCEPT !.tokens = newTokens]),
        r |-> Ret("addTokens", bucketKey, ErrNone, FALSE, newTokens, 0)]

\* addTokens(bucketKey, tokens): returns the new token count (in remaining)
AddTokensOp(bs, bucketKey, tokens) ==
  IF tokens <= 0
  THEN [b |-> bs, r |-> Threw("addTokens", bucketKey, ErrAddTokens)]
  ELSE IF ~Has(bs, bucketKey)
  THEN [b |-> bs, r |-> Threw("addTokens", bucketKey, ErrNoBucket)]
  ELSE
    LET newTokens == Min(bs[bucketKey].tokens + tokens,
                         bs[bucketKey].config.capacity)
    IN [b |-> Put(bs, bucketKey, [bs[bucketKey] EXCEPT !.tokens = newTokens]),
        r |-> Ret("addTokens", bucketKey, ErrNone, FALSE, newTokens, 0)]

\* a getStats that writes the refilled tokens back without the refill time
GetStatsOpKeepsTime(bs, bucketKey, t) ==
  IF Has(bs, bucketKey)
  THEN LET bucket == RefillBucketKeepsTime(bs[bucketKey], t)
       IN [b |-> Put(bs, bucketKey, bucket),
           r |-> [Returned("getStats", bucketKey) EXCEPT
                    !.stats = Put(<< >>, bucketKey, bucket)]]
  ELSE [b |-> bs, r |-> Returned("getStats", bucketKey)]

\* getStats(bucketKey) at time t: refills the stored bucket and returns a copy
\* of it (stats), or undefined (stats empty)
GetStatsOp(bs, bucketKey, t) ==
  IF Has(bs, bucketKey)
  THEN LET bucket == RefillBucket(bs[bucketKey], t)
       IN [b |-> Put(bs, bucketKey, bucket),
           r |-> [Returned("getStats", bucketKey) EXCEPT
                    !.stats = Put(<< >>, bucketKey, bucket)]]
  ELSE [b |-> bs, r |-> Returned("getStats", bucketKey)]

\* getAllStats() at time t: refills every stored bucket and returns the copies
GetAllStatsOp(bs, t) ==
  LET refilled == [k \in DOMAIN bs |-> RefillBucket(bs[k], t)]
  IN [b |-> refilled,
      r |-> [Returned("getAllStats", EmptyKey) EXCEPT !.stats = refilled]]

\* resetBucket(bucketKey) at time t
ResetBucketOp(bs, bucketKey, t) ==
  IF ~Has(bs, bucketKey)
  THEN [b |-> bs, r |-> Threw("resetBucket", bucketKey, ErrNoBucket)]
  ELSE [b |-> Put(bs, bucketKey,
                  [bs[bucketKey] EXCEPT
                     !.tokens = InitialOrCapacity(bs[bucketKey].config),
                     !.consumed = 0, !.blocked = 0, !.lastRefill = t]),
        r |-> Returned("resetBucket", bucketKey)]

\* removeBucket(bucketKey): Map.delete, true when the key was present
RemoveBucketOp(bs, bucketKey) ==
  [b |-> Del(bs, bucketKey),
   r |-> [Returned("removeBucket", bucketKey) EXCEPT
            !.removed = Has(bs, bucketKey)]]

\* cleanupStaleBuckets(maxAge) at time t: deletes every bucket whose last
\* refill is more than maxAge milliseconds old.  The lastCleanup field it
\* writes is read by nothing and is not carried.
CleanupStaleBucketsOp(bs, maxAge, t) ==
  [b |-> [k \in {x \in DOMAIN bs : ~(t - bs[x].lastRefill > maxAge)} |-> bs[k]],
   r |-> Returned("cleanupStaleBuckets", EmptyKey)]

\* ----------------------------------------------------------- TokenBucket
\* TokenBucketConfig (run-009) has lastRefillTime? as well
MkTBConfig(cap, rate, hasInit, init, hasLast, last) ==
  [capacity |-> cap, refillRate |-> rate, hasInit |-> hasInit,
   initialTokens |-> init, hasLast |-> hasLast, lastRefillTime |-> last]

NoBucket ==
  [alive |-> FALSE, tokens |-> 0, lastRefillTime |-> 0, capacity |-> 0,
   refillRate |-> 0]

\* TokenBucket.validateConfig at time t
TBValidateConfig(config, t) ==
  IF config.capacity <= 0 THEN ErrCapacity
  ELSE IF config.refillRate <= 0 THEN ErrRefillRate
  ELSE IF config.hasInit /\ config.initialTokens < 0 THEN ErrInitNeg
  ELSE IF config.hasInit /\ config.initialTokens > config.capacity
       THEN ErrInitExceeds
  ELSE IF config.hasLast /\ config.lastRefillTime > t THEN ErrFuture
  ELSE ErrNone

\* new TokenBucket(config) at time t: the fields, or the error thrown
TBNewOp(config, t) ==
  LET verr == TBValidateConfig(config, t) IN
  IF verr # ErrNone
  THEN [tb |-> NoBucket, r |-> Threw("TokenBucket.new", EmptyKey, verr)]
  ELSE [tb |-> [alive |-> TRUE,
                tokens |-> IF config.hasInit THEN config.initialTokens
                           ELSE config.capacity,
                lastRefillTime |-> IF config.hasLast THEN config.lastRefillTime
                                   ELSE t,
                capacity |-> config.capacity,
                refillRate |-> config.refillRate],
        r |-> Returned("TokenBucket.new", EmptyKey)]

\* refill
TBRefill(b, t) ==
  LET timeElapsedMs == t - b.lastRefillTime IN
  IF timeElapsedMs <= 0 THEN b
  ELSE [b EXCEPT
          !.tokens = Min(b.capacity, b.tokens + timeElapsedMs * b.refillRate),
          !.lastRefillTime = t]

\* the checks tryConsume makes before it takes the lock
TBTryConsumeCall(b, tokensToConsume) ==
  IF tokensToConsume <= 0 THEN ErrConsume
  ELSE IF tokensToConsume > b.capacity THEN ErrExceeds
  ELSE ErrNone

\* tryConsume's callback with the commit lost: it decides on the refilled
\* count and leaves the tokens where they were
TBTryConsumeCbNoCommit(b, tokensToConsume, t) ==
  LET refilled == TBRefill(b, t) IN
  IF refilled.tokens >= tokensToConsume
  THEN [tb |-> refilled,
        r |-> Ret("TokenBucket.tryConsume", EmptyKey, ErrNone, TRUE,
                  refilled.tokens - tokensToConsume, 0)]
  ELSE [tb |-> refilled,
        r |-> Ret("TokenBucket.tryConsume", EmptyKey, ErrNone, FALSE,
                  refilled.tokens, 0)]

\* the callback of tryConsume, run at time t.  Of RateLimitResult, limit
\* (= capacity) and resetTime are not carried.
TBTryConsumeCb(b, tokensToConsume, t) ==
  LET refilled == TBRefill(b, t) IN
  IF refilled.tokens >= tokensToConsume
  THEN LET after == [refilled EXCEPT !.tokens = @ - tokensToConsume]
       IN [tb |-> after,
           r |-> Ret("TokenBucket.tryConsume", EmptyKey, ErrNone, TRUE,
                     after.tokens, 0)]
  ELSE [tb |-> refilled,
        r |-> Ret("TokenBucket.tryConsume", EmptyKey, ErrNone, FALSE,
                  refilled.tokens,
                  CeilDiv(tokensToConsume - refilled.tokens,
                          refilled.refillRate * Scale))]

\* the callback of addTokens
TBAddTokensCb(b, tokensToAdd) ==
  LET after == [b EXCEPT !.tokens = Min(b.capacity, b.tokens + tokensToAdd)]
  IN [tb |-> after,
      r |-> Ret("TokenBucket.addTokens", EmptyKey, ErrNone, FALSE,
                after.tokens, 0)]

\* the callback of reset(initialTokens?), run at time t
TBResetCb(b, hasInit, initialTokens, t) ==
  [tb |-> [b EXCEPT !.tokens = IF hasInit THEN initialTokens ELSE b.capacity,
                    !.lastRefillTime = t],
   r |-> Returned("TokenBucket.reset", EmptyKey)]

\* the validation updateConfig makes, at time t, before it takes the lock
TBUpdateConfigCall(b, hasCap, cap, hasRate, rate, t) ==
  TBValidateConfig(
    MkTBConfig(IF hasCap THEN cap ELSE b.capacity,
               IF hasRate THEN rate ELSE b.refillRate,
               TRUE, b.tokens, TRUE, b.lastRefillTime), t)

\* the callback of updateConfig
TBUpdateConfigCb(b, hasCap, cap, hasRate, rate) ==
  LET b1 == IF hasCap
            THEN [b EXCEPT !.capacity = cap, !.tokens = Min(b.tokens, cap)]
            ELSE b
      b2 == IF hasRate THEN [b1 EXCEPT !.refillRate = rate] ELSE b1
  IN [tb |-> b2, r |-> Returned("TokenBucket.updateConfig", EmptyKey)]

\* a callback waiting on the lock: the method and its arguments
Job(kind, hasA, a, hasB, b) ==
  [kind |-> kind, hasA |-> hasA, a |-> a, hasB |-> hasB, b |-> b]

\* a call on bucket b with callbacks q waiting: one that fails its checks
\* rejects at once and leaves everything as it was, one that passes them puts
\* its callback on the lock and returns a pending promise
TBCallOp(b, q, op, err, job) ==
  IF err # ErrNone
  THEN [tb |-> b, q |-> q, r |-> Threw(op, EmptyKey, err)]
  ELSE [tb |-> b, q |-> Append(q, job), r |-> Returned("pending", EmptyKey)]

\* tryConsume(tokensToConsume)
TBTryConsumeOp(b, q, tokensToConsume) ==
  TBCallOp(b, q, "TokenBucket.tryConsume", TBTryConsumeCall(b, tokensToConsume),
           Job("tryConsume", TRUE, tokensToConsume, FALSE, 0))

\* addTokens(tokensToAdd)
TBAddTokensOp(b, q, tokensToAdd) ==
  TBCallOp(b, q, "TokenBucket.addTokens",
           IF tokensToAdd <= 0 THEN ErrAdd ELSE ErrNone,
           Job("addTokens", TRUE, tokensToAdd, FALSE, 0))

\* reset(initialTokens?)
TBResetOp(b, q, hasInit, initialTokens) ==
  TBCallOp(b, q, "TokenBucket.reset", ErrNone,
           Job("reset", hasInit, initialTokens, FALSE, 0))

\* updateConfig({capacity?, refillRate?}) at time t
TBUpdateConfigOp(b, q, hasCap, cap, hasRate, rate, t) ==
  TBCallOp(b, q, "TokenBucket.updateConfig",
           TBUpdateConfigCall(b, hasCap, cap, hasRate, rate, t),
           Job("updateConfig", hasCap, cap, hasRate, rate))

\* what a waiting callback does when it runs at time t
TBRunJob(b, job, t) ==
  CASE job.kind = "tryConsume" -> TBTryConsumeCb(b, job.a, t)
    [] job.kind = "addTokens" -> TBAddTokensCb(b, job.a)
    [] job.kind = "reset" -> TBResetCb(b, job.hasA, job.a, t)
    [] job.kind = "updateConfig" ->
         TBUpdateConfigCb(b, job.hasA, job.a, job.hasB, job.b)

TBConfigInputs ==
  {MkTBConfig(c * Scale, r, FALSE, 0, FALSE, 0) : c \in 0..MaxCap, r \in Rates}
  \cup {MkTBConfig(c * Scale, 1, TRUE, i * Scale, FALSE, 0) :
          c \in 1..MaxCap, i \in -1..(MaxCap + 1)}
  \cup {MkTBConfig(Scale, r, FALSE, 0, TRUE, t) : r \in {0, 2}, t \in Times}

\* reset(), reset(x)
ResetInputs ==
  {<<FALSE, 0>>} \cup {<<TRUE, i * Scale>> : i \in {-1, 1, MaxCap + 1}}
\* updateConfig({capacity}), updateConfig({refillRate})
UpdateInputs ==
  {<<TRUE, c * Scale, FALSE, 0>> : c \in {0, 1, MaxCap}}
  \cup {<<FALSE, 0, TRUE, r>> : r \in {0, 2}}

\* ---------------------------------------------------------------- actions
NoTally == [issued |-> 0, allowed |-> 0, denied |-> 0]

Init ==
  /\ subject \in {"TokenBucketRateLimiter", "TokenBucket"}
  /\ now \in Times
  /\ buckets = << >>
  /\ tb = NoBucket
  /\ tbQueue = << >>
  /\ ret = Returned("new", EmptyKey)
  /\ tally = NoTally
  /\ ExtIdle

Limiter == subject = "TokenBucketRateLimiter"
Bucket == subject = "TokenBucket"

CheckStep(bucketKey, tokensRequired, config) ==
  /\ Limiter
  /\ LET res == CheckOp(buckets, bucketKey, tokensRequired, config, now)
     IN /\ buckets' = res.b
        /\ ret' = res.r
  /\ UNCHANGED <<extVars, subject, now, tb, tbQueue>>

Check(bucketKey, tokensRequired, config) ==
  /\ Has(buckets, bucketKey) =>
       /\ buckets[bucketKey].blocked < MaxBlocked
       /\ buckets[bucketKey].consumed < MaxConsumed * Scale
  /\ CheckStep(bucketKey, tokensRequired, config)
  /\ UNCHANGED tally

AddTokens(bucketKey, tokens) ==
  /\ Limiter
  /\ LET res == AddTokensOp(buckets, bucketKey, tokens)
     IN buckets' = res.b /\ ret' = res.r
  /\ UNCHANGED <<extVars, subject, now, tb, tbQueue, tally>>

GetStats(bucketKey) ==
  /\ Limiter
  /\ LET res == GetStatsOp(buckets, bucketKey, now)
     IN buckets' = res.b /\ ret' = res.r
  /\ UNCHANGED <<extVars, subject, now, tb, tbQueue, tally>>

GetAllStats ==
  /\ Limiter
  /\ LET res == GetAllStatsOp(buckets, now)
     IN buckets' = res.b /\ ret' = res.r
  /\ UNCHANGED <<extVars, subject, now, tb, tbQueue, tally>>

ResetBucket(bucketKey) ==
  /\ Limiter
  /\ LET res == ResetBucketOp(buckets, bucketKey, now)
     IN buckets' = res.b /\ ret' = res.r
  /\ UNCHANGED <<extVars, subject, now, tb, tbQueue, tally>>

RemoveBucket(bucketKey) ==
  /\ Limiter
  /\ LET res == RemoveBucketOp(buckets, bucketKey)
     IN buckets' = res.b /\ ret' = res.r
  /\ UNCHANGED <<extVars, subject, now, tb, tbQueue, tally>>

\* new TokenBucket(config)
TBNew(config) ==
  /\ Bucket /\ ~tb.alive
  /\ LET res == TBNewOp(config, now)
     IN tb' = res.tb /\ ret' = res.r
  /\ UNCHANGED <<extVars, subject, now, buckets, tbQueue, tally>>

\* a TokenBucket call: at most limit callbacks wait at any time
TBCall(res, limit) ==
  /\ Bucket /\ tb.alive
  /\ res.q # tbQueue => Len(tbQueue) < limit
  /\ tb' = res.tb /\ tbQueue' = res.q /\ ret' = res.r
  /\ UNCHANGED <<extVars, subject, now, buckets>>

TBTryConsumeStep(tokensToConsume, limit) ==
  TBCall(TBTryConsumeOp(tb, tbQueue, tokensToConsume), limit)

TBTryConsume(tokensToConsume) ==
  TBTryConsumeStep(tokensToConsume, MaxPending) /\ UNCHANGED tally

TBAddTokens(tokensToAdd) ==
  TBCall(TBAddTokensOp(tb, tbQueue, tokensToAdd), MaxPending) /\ UNCHANGED tally

TBReset(hasInit, initialTokens) ==
  /\ TBCall(TBResetOp(tb, tbQueue, hasInit, initialTokens), MaxPending)
  /\ UNCHANGED tally

TBUpdateConfig(hasCap, cap, hasRate, rate) ==
  /\ TBCall(TBUpdateConfigOp(tb, tbQueue, hasCap, cap, hasRate, rate, now),
            MaxPending)
  /\ UNCHANGED tally

\* the microtask queue runs the oldest waiting callback, to completion
TBRunStep ==
  /\ Bucket /\ tbQueue # << >>
  /\ LET res == TBRunJob(tb, Head(tbQueue), now)
     IN tb' = res.tb /\ ret' = res.r
  /\ tbQueue' = Tail(tbQueue)
  /\ UNCHANGED <<extVars, subject, now, buckets>>

TBRun == TBRunStep /\ UNCHANGED tally

\* the sweep set up by the constructor's setInterval.  The timer passes the
\* default maxAge of one hour; the ages tried are within the clock's range.
StaleAges == {0, HalfSecond}
CleanupStaleBuckets(maxAge) ==
  /\ Limiter
  /\ LET res == CleanupStaleBucketsOp(buckets, maxAge, now)
     IN buckets' = res.b /\ ret' = res.r
  /\ UNCHANGED <<extVars, subject, now, tb, tbQueue, tally>>

\* Date.now() moves between calls, forwards or (a clock adjustment) backwards
Tick ==
  /\ \E t \in Times \ {now} : now' = t
  /\ ret' = Returned("tick", EmptyKey)
  /\ UNCHANGED <<extVars, subject, buckets, tb, tbQueue, tally>>

\* the argument lists of check: every amount and configuration on the keys,
\* and the empty key, which validateInput rejects before it looks at the rest
CheckInputs ==
  (Keys \X AmountInputs \X OptConfigInputs)
  \cup ({EmptyKey} \X {Scale} \X {NoConfig, MkConfig(Scale, 1, FALSE, 0)})

Next ==
  \/ \E a \in CheckInputs : Check(a[1], a[2], a[3])
  \/ \E k \in Keys, n \in AmountInputs : AddTokens(k, n)
  \/ \E k \in Keys : GetStats(k)
  \/ GetAllStats
  \/ \E k \in Keys : ResetBucket(k)
  \/ \E k \in Keys : RemoveBucket(k)
  \/ \E m \in StaleAges : CleanupStaleBuckets(m)
  \/ \E c \in TBConfigInputs : TBNew(c)
  \/ \E n \in AmountInputs : TBTryConsume(n)
  \/ \E n \in AmountInputs : TBAddTokens(n)
  \/ \E a \in ResetInputs : TBReset(a[1], a[2])
  \/ \E a \in UpdateInputs : TBUpdateConfig(a[1], a[2], a[3], a[4])
  \/ TBRun
  \/ Tick

Spec == Init /\ [][Next]_vars

\* ------------------------------------------------------------------ bursts
\* BurstCalls calls for one token each, issued on one full bucket while
\* Date.now() stands still.  On a TokenBucket the calls are issued without
\* awaiting one another, so their callbacks wait on the lock together and any
\* number of them may have run when the next call is issued.  check is
\* synchronous: a burst of checks is checks one after another.
FullConfigInputs ==
  {c \in ValidConfigInputs : ~c.hasInit \/ c.initialTokens = c.capacity}

InitBurst ==
  /\ now \in Times
  /\ buckets = << >>
  /\ \/ subject = "TokenBucketRateLimiter" /\ tb = NoBucket
     \/ /\ subject = "TokenBucket"
        /\ \E c \in 1..MaxCap, r \in Rates :
             tb = TBNewOp(MkTBConfig(c * Scale, r, FALSE, 0, FALSE, 0), now).tb
  /\ tbQueue = << >>
  /\ ret = Returned("new", EmptyKey)
  /\ tally = NoTally
  /\ ExtIdle

Counted(r) ==
  IF r.allowed THEN [tally EXCEPT !.allowed = @ + 1]
  ELSE [tally EXCEPT !.denied = @ + 1]

BurstTryConsume ==
  /\ tally.issued < BurstCalls
  /\ TBTryConsumeStep(Scale, BurstCalls)
  /\ tally' = [tally EXCEPT !.issued = @ + 1]

BurstRun ==
  /\ TBRunStep
  /\ tally' = Counted(ret')

BurstCheck(config) ==
  /\ tally.issued < BurstCalls
  /\ CheckStep("k1", Scale, config)
  /\ tally' = [Counted(ret') EXCEPT !.issued = @ + 1]

NextBurst ==
  \/ BurstTryConsume
  \/ BurstRun
  \/ \E c \in FullConfigInputs : BurstCheck(c)

SpecBurst == InitBurst /\ [][NextBurst]_vars

\* the capacity, in whole tokens, of the bucket a burst is issued on
BurstCapacity ==
  IF subject = "TokenBucket" THEN tb.capacity \div Scale
  ELSE IF Has(buckets, "k1") THEN buckets["k1"].config.capacity \div Scale
  ELSE 0

\* the calls of the burst that have been answered
BurstAnswered == tally.issued - Len(tbQueue)

\* C1: of the calls for one token issued on one full bucket with no time
\* elapsing, whatever the order in which calls are issued and callbacks run,
\* once N of them are answered exactly min(N, capacity) were allowed and the
\* other N - min(N, capacity) were denied.
C1_BurstAdmitsExactlyCapacity ==
  /\ tally.allowed + tally.denied = BurstAnswered
  /\ tally.allowed = Min(BurstAnswered, BurstCapacity)
  /\ tally.denied = BurstAnswered - Min(BurstAnswered, BurstCapacity)

\* a burst of BurstCalls calls on a TokenBucket, all answered, as many allowed
\* as the capacity and the others denied
C1_Witness ==
  /\ subject = "TokenBucket"
  /\ tally.issued = BurstCalls /\ tbQueue = << >>
  /\ tally.allowed = BurstCapacity /\ tally.denied = BurstCalls - BurstCapacity
  /\ tally.denied > 0

\* ------------------------------------------------------------------ claims
\* C2: every stored bucket of TokenBucketRateLimiter has
\* 0 <= tokens <= capacity, after any calls at any timestamps.
C2_LimiterTokensInRange ==
  \A k \in DOMAIN buckets :
    /\ 0 <= buckets[k].tokens
    /\ buckets[k].tokens <= buckets[k].config.capacity

\* a bucket that was consumed from and that getStats has refilled to capacity
C2_Witness ==
  /\ ret.op = "getStats" /\ Has(buckets, "k1")
  /\ buckets["k1"].consumed > 0
  /\ buckets["k1"].lastRefill = now
  /\ buckets["k1"].tokens = buckets["k1"].config.capacity

\* C3: a constructed TokenBucket has 0 <= tokens <= capacity at all times.
C3_BucketTokensInRange ==
  tb.alive => 0 <= tb.tokens /\ tb.tokens <= tb.capacity

\* what a consume leaves of a bucket that held `tokens` when the refill adds
\* nothing: the request is decided on `tokens` alone
Unrefilled(tokens, requested, allowed, left) ==
  /\ allowed = (tokens >= requested)
  /\ left = IF allowed THEN tokens - requested ELSE tokens

\* C4: a consume call never lowers the stored last-refill time, and one that
\* reads a clock earlier than the last-refill time leaves that time as it is
\* and refills nothing: the token count changes by the consumption only.
C4_NoRefillOnClockRegression ==
  /\ \A k \in DOMAIN buckets, n \in AmountInputs :
       LET res == CheckOp(buckets, k, n, NoConfig, now) IN
       res.r.err = ErrNone =>
         /\ res.b[k].lastRefill >= buckets[k].lastRefill
         /\ now < buckets[k].lastRefill =>
              /\ res.b[k].lastRefill = buckets[k].lastRefill
              /\ Unrefilled(buckets[k].tokens, n, res.r.allowed,
                            res.b[k].tokens)
  /\ tb.alive =>
       \A n \in AmountInputs :
         LET res == TBTryConsumeCb(tb, n, now) IN
         n > 0 =>
           /\ res.tb.lastRefillTime >= tb.lastRefillTime
           /\ now < tb.lastRefillTime =>
                /\ res.tb.lastRefillTime = tb.lastRefillTime
                /\ Unrefilled(tb.tokens, n, res.r.allowed, res.tb.tokens)

\* a check denied while Date.now() was behind the last refill of a bucket that
\* was not full
C4_Witness ==
  /\ ret.op = "check" /\ ret.err = ErrNone /\ Has(buckets, "k1")
  /\ now < buckets["k1"].lastRefill
  /\ ~ret.allowed /\ ret.remaining < buckets["k1"].config.capacity

\* C5: a request for more tokens than the capacity is an error of its own: it
\* is not answered allowed = false with a retryAfter, and it changes neither
\* the tokens nor the counters.
C5_OverCapacityIsAnError ==
  /\ \A k \in DOMAIN buckets, n \in AmountInputs :
       n > buckets[k].config.capacity =>
         LET res == CheckOp(buckets, k, n, NoConfig, now) IN
         /\ res.r.err # ErrNone
         /\ res.b[k].tokens = buckets[k].tokens
         /\ res.b[k].consumed = buckets[k].consumed
         /\ res.b[k].blocked = buckets[k].blocked
  /\ tb.alive =>
       \A n \in AmountInputs :
         n > tb.capacity =>
           TBTryConsumeOp(tb, tbQueue, n) =
             [tb |-> tb, q |-> tbQueue,
              r |-> Threw("TokenBucket.tryConsume", EmptyKey, ErrExceeds)]

\* C6: a consume request for zero or fewer tokens throws an input error and
\* touches nothing: no bucket is made and every bucket stays as it was.
C6_NonPositiveRequestRejected ==
  /\ Limiter =>
       \A k \in Keys, n \in AmountInputs, c \in OptConfigInputs :
         n <= 0 =>
           CheckOp(buckets, k, n, c, now) =
             [b |-> buckets, r |-> Threw("check", k, ErrTokens)]
  /\ tb.alive =>
       \A n \in AmountInputs :
         n <= 0 =>
           TBTryConsumeOp(tb, tbQueue, n) =
             [tb |-> tb, q |-> tbQueue,
              r |-> Threw("TokenBucket.tryConsume", EmptyKey, ErrConsume)]

\* a check for no tokens was rejected on a bucket that a check for one token
\* would have refilled
C6_Witness ==
  /\ ret.op = "check" /\ ret.err = ErrTokens /\ Has(buckets, "k1")
  /\ now > buckets["k1"].lastRefill
  /\ buckets["k1"].tokens < buckets["k1"].config.capacity

\* C7: check without a config on a key that has no bucket throws the
\* unknown-bucket error and makes no bucket; with a valid config, check on
\* that key returns and the key has a bucket.
C7_UnknownBucketRecoverable ==
  Limiter =>
    \A k \in Keys \ DOMAIN buckets, n \in AmountInputs :
      n > 0 =>
        /\ CheckOp(buckets, k, n, NoConfig, now) =
             [b |-> buckets, r |-> Threw("check", k, ErrNoBucketNoConfig)]
        /\ \A c \in ValidConfigInputs :
             LET res == CheckOp(buckets, k, n, c, now) IN
             /\ res.r.err = ErrNone
             /\ DOMAIN res.b = DOMAIN buckets \cup {k}

\* a check without config has just failed on a key that, after a removal,
\* has no bucket
C7_Witness ==
  /\ ret.op = "check" /\ ret.err = ErrNoBucketNoConfig
  /\ ~Has(buckets, ret.key)

\* C8: on a key that has a bucket, check with a config, whatever the config,
\* returns what check without a config returns and leaves the same buckets.
C8_ConfigIgnoredOnExistingBucket ==
  \A k \in DOMAIN buckets, n \in AmountInputs, c \in ConfigInputs :
    CheckOp(buckets, k, n, c, now) = CheckOp(buckets, k, n, NoConfig, now)

\* a configuration outside the documented ranges
OutOfRange(config) ==
  \/ config.capacity <= 0
  \/ config.refillRate <= 0
  \/ config.hasInit /\ config.initialTokens < 0
  \/ config.hasInit /\ config.initialTokens > config.capacity

\* C9: creating a bucket from a configuration with capacity <= 0,
\* refillRate <= 0 or initialTokens outside [0, capacity] throws, a
\* configuration error when the other arguments are valid, and stores no
\* bucket.
C9_InvalidConfigRejectedAtCreation ==
  /\ Limiter =>
       \A k \in Keys \ DOMAIN buckets, n \in AmountInputs,
          c \in ConfigInputs :
         OutOfRange(c) =>
         LET res == CheckOp(buckets, k, n, c, now) IN
         /\ res.b = buckets
         /\ res.r.err # ErrNone
         /\ n > 0 => res.r.err \in ConfigErrors
  /\ Bucket /\ ~tb.alive =>
       \A c \in TBConfigInputs :
         OutOfRange(c) =>
           LET res == TBNewOp(c, now) IN
           ~res.tb.alive /\ res.r.err \in ConfigErrors

\* a check that was to create a bucket threw a configuration error and the
\* key has no bucket
C9_Witness ==
  /\ ret.op = "check" /\ ret.err \in ConfigErrors
  /\ ret.key \in Keys /\ ~Has(buckets, ret.key)

\* C10: the check that creates a bucket from a valid configuration decides on
\* initialTokens tokens when initialTokens is given, whatever its value in
\* [0, capacity], and on capacity tokens when it is not.
C10_BucketStartsWithInitialTokens ==
  \A k \in Keys \ DOMAIN buckets, n \in AmountInputs, c \in ValidConfigInputs :
    n > 0 =>
      LET start == IF c.hasInit THEN c.initialTokens ELSE c.capacity
          res == CheckOp(buckets, k, n, c, now)
      IN /\ res.r.err = ErrNone
         /\ res.r.allowed = (n <= start)
         /\ res.r.remaining = IF n <= start THEN start - n ELSE start

\* C11: a bucket that held t tokens at its last-refill time and is accessed
\* e >= 0 seconds later, nothing in between, offers that access exactly
\* min(capacity, t + e * refillRate) tokens.
C11_RefillExactAndClamped ==
  /\ Limiter =>
       \A k \in DOMAIN buckets :
         LET b == buckets[k] IN
         now >= b.lastRefill =>
           RefillBucket(b, now).tokens =
             Min(b.config.capacity,
                 b.tokens + (now - b.lastRefill) * b.config.refillRate)
  /\ Bucket /\ tb.alive =>
       (now >= tb.lastRefillTime =>
          TBRefill(tb, now).tokens =
            Min(tb.capacity,
                tb.tokens + (now - tb.lastRefillTime) * tb.refillRate))

\* what the claim says of a request for n tokens decided on v tokens at
\* refill rate `rate`: r is the result returned.  The retryAfter of a denial
\* is the least whole number of seconds in which n - v tokens are refilled.
Decided(v, n, rate, r) ==
  IF v >= n
  THEN r.allowed /\ r.remaining = v - n /\ r.retryAfter = 0
  ELSE /\ ~r.allowed /\ r.remaining = v
       /\ r.retryAfter * rate * Scale >= n - v
       /\ (r.retryAfter - 1) * rate * Scale < n - v

C13_AddTokensClampsOrFails ==
  /\ Limiter =>
       \A k \in Keys, a \in AmountInputs :
         LET res == AddTokensOp(buckets, k, a) IN
         IF a > 0 /\ Has(buckets, k)
         THEN LET sum == Min(buckets[k].config.capacity, buckets[k].tokens + a)
              IN /\ res.r.err = ErrNone
                 /\ res.r.remaining = sum
                 /\ res.b = [buckets EXCEPT ![k].tokens = sum]
         ELSE res.r.err # ErrNone /\ res.b = buckets
  /\ Bucket /\ tb.alive =>
       \A a \in AmountInputs :
         IF a > 0
         THEN LET res == TBAddTokensCb(tb, a)
                  sum == Min(tb.capacity, tb.tokens + a)
              IN res.r.remaining = sum /\ res.tb = [tb EXCEPT !.tokens = sum]
         ELSE TBAddTokensOp(tb, tbQueue, a) =
                [tb |-> tb, q |-> tbQueue,
                 r |-> Threw("TokenBucket.addTokens", EmptyKey, ErrAdd)]

\* addTokens has filled to capacity a bucket that had been consumed from
C13_Witness ==
  /\ ret.op = "addTokens" /\ ret.err = ErrNone /\ Has(buckets, ret.key)
  /\ buckets[ret.key].consumed > 0
  /\ ret.remaining = buckets[ret.key].config.capacity
  /\ buckets[ret.key].tokens = ret.remaining

\* C14: resetBucket(key) on a key that has a bucket sets tokens to the
\* initialTokens the bucket was configured with, whatever its value in
\* [0, capacity], and to capacity when none was configured, and zeroes
\* consumed and blocked; on a key without a bucket it throws and makes none.
C14_ResetRestoresConfiguredTokens ==
  Limiter =>
    \A k \in Keys :
      LET res == ResetBucketOp(buckets, k, now) IN
      IF Has(buckets, k)
      THEN LET config == buckets[k].config IN
           /\ res.r.err = ErrNone
           /\ res.b[k].tokens = IF config.hasInit THEN config.initialTokens
                                ELSE config.capacity
           /\ res.b[k].consumed = 0 /\ res.b[k].blocked = 0
      ELSE res.r.err # ErrNone /\ res.b = buckets

\* the two counters of the bucket of key k in the map bs: those of a bucket
\* about to be created when there is none
Counters(bs, k) ==
  IF Has(bs, k)
  THEN [consumed |-> bs[k].consumed, blocked |-> bs[k].blocked]
  ELSE [consumed |-> 0, blocked |-> 0]

\* C16: consumed is the sum of the amounts of the allowed checks, and blocked
\* the number of the denied checks, since the bucket was created or last
\* reset: a bucket starts at 0 and 0, each answered check adds its amount to
\* consumed or 1 to blocked and leaves the other, a check that throws, an
\* addTokens and a statistics read leave both, a reset zeroes both; neither is
\* ever negative.
C16_CountersCountChecks ==
  Limiter =>
    /\ \A k \in DOMAIN buckets :
         buckets[k].consumed >= 0 /\ buckets[k].blocked >= 0
    /\ \A k \in Keys, n \in AmountInputs, c \in OptConfigInputs :
         LET res == CheckOp(buckets, k, n, c, now)
             was == Counters(buckets, k)
         IN IF res.r.err # ErrNone THEN res.b = buckets
            ELSE Counters(res.b, k) =
                   IF res.r.allowed
                   THEN [was EXCEPT !.consumed = @ + n]
                   ELSE [was EXCEPT !.blocked = @ + 1]
    /\ \A k \in DOMAIN buckets :
         /\ \A a \in AmountInputs :
              Counters(AddTokensOp(buckets, k, a).b, k) = Counters(buckets, k)
         /\ Counters(GetStatsOp(buckets, k, now).b, k) = Counters(buckets, k)
         /\ Counters(GetAllStatsOp(buckets, now).b, k) = Counters(buckets, k)
         /\ Counters(ResetBucketOp(buckets, k, now).b, k) =
              [consumed |-> 0, blocked |-> 0]

\* a check was denied on a bucket that had granted tokens before: both
\* counters have counted
C16_Witness ==
  /\ ret.op = "check" /\ ret.err = ErrNone /\ ~ret.allowed
  /\ Has(buckets, ret.key)
  /\ buckets[ret.key].consumed > 0 /\ buckets[ret.key].blocked = 1

\* C19: updateConfig({capacity: c}) with 0 < c < tokens succeeds, and sets the
\* capacity to c and the tokens to c; updateConfig({refillRate: r}) with
\* r > 0 succeeds and changes the refill rate alone.
C19_UpdateConfigShrinksAndCaps ==
  Bucket /\ tb.alive =>
    /\ \A c \in {i * Scale : i \in 1..MaxCap} :
         c < tb.tokens =>
           /\ TBUpdateConfigOp(tb, tbQueue, TRUE, c, FALSE, 0, now).r.err
                = ErrNone
           /\ TBUpdateConfigCb(tb, TRUE, c, FALSE, 0).tb =
                [tb EXCEPT !.capacity = c, !.tokens = c]
    /\ \A r \in Rates :
         0 <= tb.tokens /\ tb.tokens <= tb.capacity /\ tb.lastRefillTime <= now
         =>
           /\ TBUpdateConfigOp(tb, tbQueue, FALSE, 0, TRUE, r, now).r.err
                = ErrNone
           /\ TBUpdateConfigCb(tb, FALSE, 0, TRUE, r).tb =
                [tb EXCEPT !.refillRate = r]

\* ------------------------------------------------- snapshots of statistics
\* getStats and getAllStats return { ...bucket }: a new object whose own
\* fields are copies and whose config field is the config object of the
\* stored bucket.  A caller that holds the snapshot `stats` of key k writes
\* value v to one of its fields: a write to tokens, consumed, blocked or
\* lastRefill lands in the snapshot alone, a write to a field of stats.config
\* lands in the object the stored bucket has as its config.
ConfigFields == {"capacity", "refillRate"}
WriteStatsOp(bs, stats, k, field, v) ==
  IF field \in ConfigFields
  THEN [b |-> [bs EXCEPT ![k].config[field] = v],
        stats |-> [stats EXCEPT ![k].config[field] = v]]
  ELSE [b |-> bs, stats |-> [stats EXCEPT ![k][field] = v]]

\* the writes tried: the token count, and each field of the nested config
StatsWrites ==
  {<<"tokens", 0>>, <<"capacity", Scale>>, <<"capacity", MaxCap * Scale>>,
   <<"refillRate", 1>>, <<"refillRate", 2>>}

\* the caller writes to the snapshot the last call returned
WriteStats(k, field, v) ==
  /\ Limiter
  /\ ret.op \in {"getStats", "getAllStats"}
  /\ k \in DOMAIN ret.stats /\ Has(buckets, k)
  /\ LET res == WriteStatsOp(buckets, ret.stats, k, field, v)
     IN buckets' = res.b /\ ret' = [ret EXCEPT !.stats = res.stats]
  /\ UNCHANGED <<extVars, subject, now, tb, tbQueue, tally>>

InitSnapshot == Init /\ Limiter

NextSnapshot ==
  \/ \E a \in CheckInputs : Check(a[1], a[2], a[3])
  \/ \E k \in Keys, n \in AmountInputs : AddTokens(k, n)
  \/ \E k \in Keys : GetStats(k)
  \/ GetAllStats
  \/ \E k \in Keys : ResetBucket(k)
  \/ \E k \in Keys : RemoveBucket(k)
  \/ \E m \in StaleAges : CleanupStaleBuckets(m)
  \/ Tick
  \/ \E k \in Keys, w \in StatsWrites : WriteStats(k, w[1], w[2])

SpecSnapshot == InitSnapshot /\ [][NextSnapshot]_vars

\* C15: a write by the caller to any field of a snapshot returned by getStats
\* or getAllStats, a field of its nested config included, leaves the stored
\* buckets, and so what every later call returns, as they were.
C15_SnapshotsShareNoState ==
  [][(\E k \in Keys, w \in StatsWrites : WriteStats(k, w[1], w[2]))
       => /\ buckets' = buckets
          /\ \A k \in Keys, n \in AmountInputs :
               CheckOp(buckets', k, n, NoConfig, now').r
                 = CheckOp(buckets, k, n, NoConfig, now).r]_vars

\* -------------------------------------------------------- UserRateLimiter
UserIds == {"u1"}

\* the configuration checkRateLimit builds a user's bucket from
DefaultConfig(d) == MkTBConfig(d.capacity, d.refillRate, FALSE, 0, FALSE, 0)

\* a tryConsume callback waiting on the lock of object obj
Task(obj, cost, userId) == [obj |-> obj, cost |-> cost, user |-> userId]

\* checkRateLimit(userId, cost) at time t, up to its await: the lookup, the
\* creation of a missing bucket, and the call of bucket.tryConsume, which
\* throws or leaves its callback on the bucket's lock
CheckRateLimitOp(d, h, ub, mt, userId, cost, t) ==
  LET made == TBNewOp(DefaultConfig(d), t) IN
  IF ~Has(ub, userId) /\ made.r.err # ErrNone
  THEN [heap |-> h, userBuckets |-> ub, microtasks |-> mt,
        r |-> Threw("checkRateLimit", userId, made.r.err)]
  ELSE
    LET h1 == IF Has(ub, userId) THEN h ELSE Append(h, made.tb)
        ub1 == IF Has(ub, userId) THEN ub ELSE Put(ub, userId, Len(h1))
        obj == ub1[userId]
        err == TBTryConsumeCall(h1[obj], cost)
    IN IF err # ErrNone
       THEN [heap |-> h1, userBuckets |-> ub1, microtasks |-> mt,
             r |-> Threw("checkRateLimit", userId, err)]
       ELSE [heap |-> h1, userBuckets |-> ub1,
             microtasks |-> Append(mt, Task(obj, cost, userId)),
             r |-> Returned("pending", userId)]

\* cleanupInactiveUsers(maxAgeMs) at time t
CleanupInactiveUsersOp(h, ub, maxAgeMs, t) ==
  [u \in {x \in DOMAIN ub : ~(t - h[ub[x]].lastRefillTime > maxAgeMs)}
     |-> ub[u]]

\* the oldest waiting callback runs at time t on the object it was queued
\* on; checkRateLimit then returns result.allowed
RunMicrotaskOp(h, mt, t) ==
  LET task == Head(mt)
      res == TBTryConsumeCb(h[task.obj], task.cost, t)
  IN [heap |-> [h EXCEPT ![task.obj] = res.tb],
      microtasks |-> Tail(mt),
      r |-> Ret("checkRateLimit", task.user, ErrNone, res.r.allowed, 0, 0)]

Users == subject = "UserRateLimiter"

CheckRateLimit(userId, cost) ==
  /\ Users
  /\ Has(userBuckets, userId) \/ Len(heap) < MaxObjects
  /\ Len(microtasks) < MaxPending
  /\ LET res == CheckRateLimitOp(defaults, heap, userBuckets, microtasks,
                                 userId, cost, now)
     IN /\ heap' = res.heap
        /\ userBuckets' = res.userBuckets
        /\ microtasks' = res.microtasks
        /\ ret' = res.r
  /\ UNCHANGED <<subject, now, baseVars, distVars, urlVars, defaults, lastObj>>

CleanupInactiveUsers(maxAgeMs) ==
  /\ Users
  /\ userBuckets' = CleanupInactiveUsersOp(heap, userBuckets, maxAgeMs, now)
  /\ ret' = Returned("cleanupInactiveUsers", EmptyKey)
  /\ UNCHANGED <<subject, now, baseVars, distVars, urlVars,
                 defaults, heap, microtasks, lastObj>>

RunMicrotask ==
  /\ Users
  /\ microtasks # << >>
  /\ LET res == RunMicrotaskOp(heap, microtasks, now)
     IN /\ heap' = res.heap
        /\ microtasks' = res.microtasks
        /\ ret' = res.r
  /\ lastObj' = Head(microtasks).obj
  /\ UNCHANGED <<subject, now, baseVars, distVars, urlVars,
                 defaults, userBuckets>>

\* the callbacks a call has queued run in the same turn of the event loop,
\* before a timer or another request is served: at the clock's granularity
\* no time passes while one waits
SweepTick == microtasks = << >> /\ Tick

\* a TokenBucketRateLimiter, or a UserRateLimiter constructed with valid
\* defaults
InitSweep ==
  /\ now \in Times
  /\ buckets = << >>
  /\ tb = NoBucket
  /\ tbQueue = << >>
  /\ ret = Returned("new", EmptyKey)
  /\ tally = NoTally
  /\ heap = << >> /\ userBuckets = << >> /\ microtasks = << >> /\ lastObj = 0
  /\ DistIdle /\ UrlIdle
  /\ \/ subject = "TokenBucketRateLimiter"
        /\ defaults = [capacity |-> 0, refillRate |-> 0]
     \/ /\ subject = "UserRateLimiter"
        /\ \E c \in 1..MaxCap, r \in Rates :
             defaults = [capacity |-> c * Scale, refillRate |-> r]

NextSweep ==
  \/ \E a \in CheckInputs : Check(a[1], a[2], a[3])
  \/ \E m \in StaleAges : CleanupStaleBuckets(m)
  \/ \E u \in UserIds, n \in AmountInputs : CheckRateLimit(u, n)
  \/ \E m \in StaleAges : CleanupInactiveUsers(m)
  \/ RunMicrotask
  \/ SweepTick

SpecSweep == InitSweep /\ [][NextSweep]_vars

DistKeys == {"k1"}

\* getState's null
NoState ==
  [present |-> FALSE,
   state |-> [tokens |-> 0, lastRefillTime |-> 0, capacity |-> 0,
              refillRate |-> 0]]
\* InMemoryStorage.getState
GetState(st, key) ==
  IF Has(st, key) THEN [present |-> TRUE, state |-> st[key]] ELSE NoState

\* this.locks.get of a storage whose lock is one for all keys
HeldAnyKey(lk, key) == \E k \in DOMAIN lk : lk[k]
\* this.locks.get(key), with every lock taken for free
HeldNever(lk, key) == FALSE
\* this.locks.get(key): undefined and false both let the caller through
Held(lk, key) == Has(lk, key) /\ lk[key]

\* an unlock that leaves the lock taken
UnlockNever(lk, key) == lk
\* the function lock returns: () => this.locks.set(key, false)
Unlock(lk, key) == Put(lk, key, FALSE)

\* the state tryConsume starts from when the key has none
FreshState(config, t) ==
  [tokens |-> IF config.hasInit THEN config.initialTokens ELSE config.capacity,
   lastRefillTime |-> t,
   capacity |-> config.capacity,
   refillRate |-> config.refillRate]

\* tryConsume between getState and setState, at time t, on what getState
\* returned: whether it writes, the state it writes, and its result
DistDecideOp(config, read, tokensToConsume, t) ==
  LET state == IF read.present THEN read.state ELSE FreshState(config, t)
      timeElapsedMs == t - state.lastRefillTime
      tokensToAdd == timeElapsedMs * state.refillRate
      newTokens == Min(state.capacity, state.tokens + tokensToAdd)
  IN IF newTokens >= tokensToConsume
     THEN LET updatedState ==
                [state EXCEPT !.tokens = newTokens - tokensToConsume,
                              !.lastRefillTime = t]
          IN [write |-> TRUE, state |-> updatedState,
              r |-> Ret("DistributedTokenBucket.tryConsume", EmptyKey, ErrNone,
                        TRUE, updatedState.tokens, 0)]
     ELSE [write |-> FALSE, state |-> state,
           r |-> Ret("DistributedTokenBucket.tryConsume", EmptyKey, ErrNone,
                     FALSE, newTokens,
                     CeilDiv(tokensToConsume - newTokens,
                             state.refillRate * Scale))]

\* a tryConsume call: where it is, the instance it was made on, the amount,
\* what getState returned to it and the result it is about to return
Proc(pc, inst, n, read, r) ==
  [pc |-> pc, inst |-> inst, n |-> n, read |-> read, r |-> r]
IdleProc(inst) == Proc("idle", inst, 0, NoState, Returned("idle", EmptyKey))

\* the calls that hold the lock of a key: from storage.lock's return to unlock
InLock == {"locked", "read", "written"}
KeyOf(p) == instances[procs[p].inst].key
ConfigOf(p) == instances[procs[p].inst].config

Dist == subject = "DistributedTokenBucket"

\* tryConsume(n) is called: storage.lock(key) runs up to its first await, and
\* takes the lock when nobody holds it
DistTryConsumeStep(p, n) ==
  /\ Dist /\ procs[p].pc = "idle"
  /\ IF Held(locks, KeyOf(p))
     THEN /\ procs' = [procs EXCEPT ![p].pc = "spin", ![p].n = n]
          /\ locks' = locks
     ELSE /\ procs' = [procs EXCEPT ![p].pc = "locked", ![p].n = n]
          /\ locks' = Put(locks, KeyOf(p), TRUE)
  /\ ret' = Returned("pending", EmptyKey)
  /\ UNCHANGED <<subject, now, objVars, userVars, urlVars, instances, storage>>

\* the 10 ms timer of the spin loop fires and the lock is free: the loop
\* ends and the lock is taken.  (When it is held the loop sleeps again.)
DistSpinStep(p) ==
  /\ Dist /\ procs[p].pc = "spin"
  /\ ~Held(locks, KeyOf(p))
  /\ procs' = [procs EXCEPT ![p].pc = "locked"]
  /\ locks' = Put(locks, KeyOf(p), TRUE)
  /\ UNCHANGED <<subject, now, ret, objVars, userVars, urlVars,
                 instances, storage>>

\* after `await this.storage.lock`: getState reads the stored state
DistGetStateStep(p) ==
  /\ Dist /\ procs[p].pc = "locked"
  /\ procs' = [procs EXCEPT ![p].pc = "read",
                            ![p].read = GetState(storage, KeyOf(p))]
  /\ UNCHANGED <<subject, now, ret, objVars, userVars, urlVars,
                 instances, storage, locks>>

\* after `await this.storage.getState`: refill and decide; an allowed call
\* writes the state and awaits setState, a denied call returns and unlocks
DistDecideStep(p) ==
  /\ Dist /\ procs[p].pc = "read"
  /\ LET res == DistDecideOp(ConfigOf(p), procs[p].read, procs[p].n, now) IN
     IF res.write
     THEN /\ storage' = Put(storage, KeyOf(p), res.state)
          /\ procs' = [procs EXCEPT ![p].pc = "written", ![p].r = res.r]
          /\ UNCHANGED <<locks, ret>>
     ELSE /\ locks' = Unlock(locks, KeyOf(p))
          /\ procs' = [procs EXCEPT ![p].pc = "done", ![p].r = res.r]
          /\ ret' = res.r
          /\ UNCHANGED storage
  /\ UNCHANGED <<subject, now, objVars, userVars, urlVars, instances>>

\* after `await this.storage.setState`: the result is returned and the
\* finally block unlocks
DistReturnStep(p) ==
  /\ Dist /\ procs[p].pc = "written"
  /\ locks' = Unlock(locks, KeyOf(p))
  /\ procs' = [procs EXCEPT ![p].pc = "done"]
  /\ ret' = procs[p].r
  /\ UNCHANGED <<subject, now, objVars, userVars, urlVars, instances, storage>>

\* ---------- a burst on one key through two instances, no time elapsing
\* two instances made with the same key, the same configuration and the same
\* storage, which has nothing for the key; call p is made on instance
\* 1 + (p mod 2)
InitDistBurst ==
  /\ subject = "DistributedTokenBucket"
  /\ now \in Times
  /\ buckets = << >> /\ tb = NoBucket /\ tbQueue = << >>
  /\ ret = Returned("new", EmptyKey)
  /\ tally = NoTally
  /\ UserIdle /\ UrlIdle
  /\ \E c \in 1..MaxCap, r \in Rates :
       instances = [i \in 1..2 |->
                      [key |-> "k1",
                       config |-> MkTBConfig(c * Scale, r, FALSE, 0, FALSE, 0)]]
  /\ storage = << >>
  /\ locks = << >>
  /\ procs = [p \in 1..DistCalls |-> IdleProc(1 + (p % 2))]

DistBurstTryConsume(p) ==
  /\ DistTryConsumeStep(p, Scale)
  /\ tally' = [tally EXCEPT !.issued = @ + 1]

DistBurstSpin(p) == DistSpinStep(p) /\ UNCHANGED tally

DistBurstGetState(p) == DistGetStateStep(p) /\ UNCHANGED tally

DistBurstDecide(p) ==
  /\ DistDecideStep(p)
  /\ tally' = IF procs'[p].pc = "done"
              THEN [tally EXCEPT !.denied = @ + 1] ELSE tally

DistBurstReturn(p) ==
  /\ DistReturnStep(p)
  /\ tally' = [tally EXCEPT !.allowed = @ + 1]

NextDistBurst ==
  \/ \E p \in DOMAIN procs : DistBurstTryConsume(p)
  \/ \E p \in DOMAIN procs : DistBurstSpin(p)
  \/ \E p \in DOMAIN procs : DistBurstGetState(p)
  \/ \E p \in DOMAIN procs : DistBurstDecide(p)
  \/ \E p \in DOMAIN procs : DistBurstReturn(p)

SpecDistBurst == InitDistBurst /\ [][NextDistBurst]_vars

\* the calls of key k that hold its lock
Holders(k) == {p \in DOMAIN procs : procs[p].pc \in InLock /\ KeyOf(p) = k}
\* the calls made and not yet returned
Running == {p \in DOMAIN procs : procs[p].pc \notin {"idle", "done"}}

\* C18: instances sharing a storage and a key share one bucket and take
\* turns on it: at most one tryConsume call of a key is between the return
\* of lock and unlock, and it is there exactly when the lock is held; of N
\* concurrent calls for one token on a fresh key of capacity c, no time
\* elapsing, exactly min(N, c) are allowed.
C18_SharedKeySerialized ==
  Dist =>
    /\ \A k \in DistKeys :
         /\ Cardinality(Holders(k)) <= 1
         /\ Held(locks, k) <=> Holders(k) # {}
    /\ tally.allowed + tally.denied + Cardinality(Running) = tally.issued
    /\ tally.allowed <= instances[1].config.capacity \div Scale
    /\ Running = {} =>
         tally.allowed = Min(tally.issued, instances[1].config.capacity \div Scale)

\* one call has been allowed, a second, made on the other instance, holds
\* the lock and has read the state the first wrote, and a third is spinning
C18_Witness ==
  /\ Dist /\ tally.allowed >= 1
  /\ \E p, q \in DOMAIN procs :
       /\ procs[p].pc = "read" /\ procs[p].read.present
       /\ procs[q].pc = "spin"
       /\ procs[p].inst # procs[q].inst

\* ------------------------------------------------------------ URLShortener
\* Strings are sequences of character codes: "http" is <<104, 116, 116, 112>>.

DEFAULT_SHORT_CODE_LENGTH == 6
MAX_COLLISION_RETRIES == 5
MAX_CUSTOM_ALIAS_LENGTH == 20
MaxUrlLength == 2048

\* BASE62_CHARS[i], i from 0: '0'..'9', 'A'..'Z', 'a'..'z'
Base62Char(i) == IF i < 10 THEN 48 + i ELSE IF i < 36 THEN 55 + i ELSE 61 + i
\* the digits of Number.prototype.toString(36): '0'..'9', 'a'..'z'
Base36Char(i) == IF i < 10 THEN 48 + i ELSE 87 + i

\* one round of generateHash's loop on the 32-bit hash held as two 16-bit
\* halves <<high, low>>: ((hash << 5) - hash) + char, then hash & hash,
\* is 31 * hash + char modulo 2^32
HashRound(h, char) ==
  LET low == 31 * h[2] + char
  IN <<(31 * h[1] + low \div 65536) % 65536, low % 65536>>

RECURSIVE HashLoop(_, _)
HashLoop(input, i) ==
  IF i = 0 THEN <<0, 0>> ELSE HashRound(HashLoop(input, i - 1), input[i])

\* Math.abs of the signed 32-bit integer with halves h.  (-2^31, whose
\* absolute value is not a 32-bit integer, is the hash of no string here.)
Abs32(h) ==
  IF h[1] < 32768 THEN h[1] * 65536 + h[2]
  ELSE (65535 - h[1]) * 65536 + (65536 - h[2])

\* generateHash
GenerateHash(input) == Abs32(HashLoop(input, Len(input)))

RECURSIVE Base62Digits(_)
Base62Digits(n) ==
  IF n = 0 THEN << >>
  ELSE Append(Base62Digits(n \div 62), Base62Char(n % 62))
\* encodeBase62
EncodeBase62(num) == IF num = 0 THEN <<48>> ELSE Base62Digits(num)

\* Date.now().toString(36).slice(-2): the last two base-36 digits of the
\* clock (Date.now() has eight of them)
TimestampSuffix(t) ==
  <<Base36Char((t % 1296) \div 36), Base36Char(t % 36)>>

\* String.prototype.substring(0, end), padEnd(length, char) and slice(0, -2)
Substring0(s, end) == SubSeq(s, 1, Min(end, Len(s)))
PadEnd(s, length, char) ==
  s \o [i \in 1..(length - Len(s)) |-> char]
DropLast2(s) == SubSeq(s, 1, Len(s) - 2)

\* A test replaces the generateHash of its URLShortener by a function that
\* returns one number whatever the input, to force collisions.
Mocked == subject = "URLShortener, generateHash mocked"
MockedHash == 123456
\* this.generateHash(input)
Hash(input) == IF Mocked THEN MockedHash ELSE GenerateHash(input)

\* generateUniqueShortCode: the first six base-62 digits of the hash, padded
\* with '0'
GenerateUniqueShortCode(originalUrl) ==
  PadEnd(Substring0(EncodeBase62(Hash(originalUrl)),
                    DEFAULT_SHORT_CODE_LENGTH),
         DEFAULT_SHORT_CODE_LENGTH, 48)

\* String.prototype.toLowerCase on one ASCII character
ToLowerCase(c) == IF c >= 65 /\ c <= 90 THEN c + 32 ELSE c
\* the characters /[^a-z0-9-_]/ leaves in place
AliasChar(c) ==
  \/ c >= 97 /\ c <= 122
  \/ c >= 48 /\ c <= 57
  \/ c = 45
  \/ c = 95

UrlErrNone == "none"
\* the record a method returns when it throws URLShortenerError(code)
UrlThrew(op, code) ==
  [op |-> op, err |-> code, success |-> FALSE, shortCode |-> << >>,
   originalUrl |-> << >>, message |-> "", collisionResolved |-> FALSE]
\* a ShortenResult (message is '' where the code leaves it out)
ShortenResult(shortCode, originalUrl, message, collisionResolved) ==
  [op |-> "shorten", err |-> UrlErrNone, success |-> TRUE,
   shortCode |-> shortCode, originalUrl |-> originalUrl,
   message |-> message, collisionResolved |-> collisionResolved]
\* shorten has reached an await: its promise is not settled yet
ShortenPending(originalUrl) ==
  [op |-> "shorten-await", err |-> UrlErrNone, success |-> FALSE,
   shortCode |-> << >>, originalUrl |-> originalUrl, message |-> "",
   collisionResolved |-> FALSE]

\* normalizeCustomAlias: the normalized alias, or the error it throws
NormalizeCustomAlias(alias) ==
  LET lower == [i \in 1..Len(alias) |-> ToLowerCase(alias[i])]
      normalized == Substring0(SelectSeq(lower, AliasChar),
                               MAX_CUSTOM_ALIAS_LENGTH)
  IN IF Len(normalized) < 2
     THEN [err |-> "INVALID_ALIAS_LENGTH", alias |-> << >>]
     ELSE [err |-> UrlErrNone, alias |-> normalized]

\* What new URL(url) makes of a string of printable ASCII without spaces,
\* backslashes, credentials or ports: the scheme is what precedes the first
\* ':', and for http, https and ftp the host is what follows the slashes
\* after it, up to the next '/', '?' or '#'.
\* the index of the first ':' at or after i, or 0
RECURSIVE ColonAt(_, _)
ColonAt(url, i) ==
  IF i > Len(url) THEN 0
  ELSE IF url[i] = 58 THEN i
  ELSE ColonAt(url, i + 1)
Protocol(url) ==
  [i \in 1..(ColonAt(url, 1) - 1) |-> ToLowerCase(url[i])]
Http == <<104, 116, 116, 112>>
Https == <<104, 116, 116, 112, 115>>
Ftp == <<102, 116, 112>>
Mailto == <<109, 97, 105, 108, 116, 111>>
\* the index of the first character of the host: the first at or after i
\* that is no '/'
RECURSIVE HostAt(_, _)
HostAt(url, i) ==
  IF i <= Len(url) /\ url[i] = 47 THEN HostAt(url, i + 1) ELSE i
\* the index after the last character of the host that starts at i
RECURSIVE HostEnd(_, _)
HostEnd(url, i) ==
  IF i <= Len(url) /\ url[i] \notin {47, 63, 35}
  THEN HostEnd(url, i + 1)
  ELSE i
Hostname(url) ==
  LET start == HostAt(url, ColonAt(url, 1) + 1)
  IN SubSeq(url, start, HostEnd(url, start) - 1)

\* isValidUrl: new URL throws on a string without a scheme and on an
\* http, https or ftp URL without a host
IsValidUrl(url) ==
  /\ ColonAt(url, 1) > 1
  /\ Protocol(url) \in {Http, Https, Ftp, Mailto}
  /\ Protocol(url) # Mailto => Hostname(url) # << >>

\* validateUrl: the code of the error it throws, or UrlErrNone
ValidateUrl(url) ==
  IF url = << >> THEN "INVALID_URL_TYPE"
  ELSE IF ~IsValidUrl(url) THEN "INVALID_URL_FORMAT"
  ELSE IF Len(url) > MaxUrlLength THEN "URL_TOO_LONG"
  ELSE UrlErrNone

\* validateShortCode: the code of the error it throws, or UrlErrNone
ShortCodeChar(c) ==
  \/ c >= 97 /\ c <= 122
  \/ c >= 65 /\ c <= 90
  \/ c >= 48 /\ c <= 57
  \/ c = 45
  \/ c = 95
ValidateShortCode(shortCode) ==
  IF shortCode = << >> THEN "INVALID_SHORT_CODE_TYPE"
  ELSE IF Len(shortCode) > MAX_CUSTOM_ALIAS_LENGTH THEN "SHORT_CODE_TOO_LONG"
  ELSE IF \E i \in 1..Len(shortCode) : ~ShortCodeChar(shortCode[i])
       THEN "INVALID_SHORT_CODE_CHARS"
  ELSE UrlErrNone

\* bounds of the URLShortener runs
MaxRecords == 2  \* no shorten that may store once this many records are stored

\* what Math.random().toString(36).substring(2, 4) may give: "aa", "00"
RandomSuffixes == {<<97, 97>>, <<48, 48>>}

\* the ShortenedUrl record shorten stores
ShortenedUrl(id, originalUrl, shortCode, createdAt) ==
  [id |-> id, originalUrl |-> originalUrl, shortCode |-> shortCode,
   createdAt |-> createdAt, clickCount |-> 0]

\* generateId at time t: `${Date.now()}-${random}`.  Two draws of seven
\* base-36 digits within one millisecond differ, so the draw is the least
\* one that the ids in use leave free.
GenerateId(um, t) ==
  <<t, CHOOSE r \in 1..(Cardinality(DOMAIN um) + 1) :
         /\ <<t, r>> \notin DOMAIN um
         /\ \A q \in 1..(r - 1) : <<t, q>> \in DOMAIN um>>

\* a shorten that never finds the URL in the index
HasExistingNever(o2c, originalUrl) == FALSE

\* an alias check that finds every alias free
AliasTakenNever(c2i, shortCode) == FALSE

\* codeToIdMap.has(shortCode) for a normalized custom alias
AliasTaken(c2i, shortCode) == Has(c2i, shortCode)

\* originalUrlToCodeMap.get(originalUrl) is truthy
HasExisting(o2c, originalUrl) ==
  Has(o2c, originalUrl) /\ o2c[originalUrl] # << >>

ResolveFailed == [err |-> "COLLISION_RESOLUTION_FAILED", shortCode |-> << >>]
Resolved(shortCode) == [err |-> UrlErrNone, shortCode |-> shortCode]

\* resolveCollision from its loop's round `attempts` on: every result the
\* random suffixes allow, for the codes c2i holds at time t
RECURSIVE ResolveCollisionFrom(_, _, _, _, _)
ResolveCollisionFrom(c2i, existingCode, originalUrl, t, attempts) ==
  LET byTimestamp == DropLast2(existingCode) \o TimestampSuffix(t)
      byHash ==
        Substring0(EncodeBase62(Hash(Append(originalUrl, 48 + attempts))),
                   DEFAULT_SHORT_CODE_LENGTH)
      byRandom(randomSuffix) == DropLast2(existingCode) \o randomSuffix
  IN IF attempts > MAX_COLLISION_RETRIES THEN {ResolveFailed}
     ELSE IF ~Has(c2i, byTimestamp) THEN {Resolved(byTimestamp)}
     ELSE IF ~Has(c2i, byHash) THEN {Resolved(byHash)}
     ELSE UNION {IF ~Has(c2i, byRandom(s)) THEN {Resolved(byRandom(s))}
                 ELSE ResolveCollisionFrom(c2i, existingCode, originalUrl,
                                           t, attempts + 1)
                 : s \in RandomSuffixes}
\* a resolution that hands back the colliding code
ResolveCollisionSame(c2i, existingCode, originalUrl, t) ==
  {Resolved(existingCode)}

ResolveCollision(c2i, existingCode, originalUrl, t) ==
  ResolveCollisionFrom(c2i, existingCode, originalUrl, t, 1)

\* the three maps and the suspended calls, with what the call returned
UrlOut(um, c2i, o2c, fl, r) ==
  [urlMap |-> um, codeToIdMap |-> c2i, originalUrlToCodeMap |-> o2c,
   inflight |-> fl, r |-> r]

\* a store that leaves the index by original URL unwritten
StoreOpNoUrlIndex(um, c2i, o2c, fl, originalUrl, shortCode, resolved, t) ==
  LET id == GenerateId(um, t)
  IN UrlOut(Put(um, id, ShortenedUrl(id, originalUrl, shortCode, t)),
            Put(c2i, shortCode, id),
            o2c,
            fl,
            ShortenResult(shortCode, originalUrl, "", resolved))

\* the tail of shorten: generateId, the record, the three map writes
StoreOp(um, c2i, o2c, fl, originalUrl, shortCode, collisionResolved, t) ==
  LET id == GenerateId(um, t)
  IN UrlOut(Put(um, id, ShortenedUrl(id, originalUrl, shortCode, t)),
            Put(c2i, shortCode, id),
            Put(o2c, originalUrl, shortCode),
            fl,
            ShortenResult(shortCode, originalUrl, "", collisionResolved))

\* a shorten call suspended at an await: after generateUniqueShortCode
\* (pc = "generated") or after resolveCollision (pc = "resolved", with the
\* promise's outcome in res)
Suspended(originalUrl, pc, shortCode, res) ==
  [originalUrl |-> originalUrl, pc |-> pc, shortCode |-> shortCode,
   res |-> res]

\* a shorten that indexes the URL before it finds the alias taken
ShortenOpIndexesFirst(um, c2i, o2c, fl, originalUrl, customAlias, t) ==
  LET same(r) == UrlOut(um, c2i, o2c, fl, r)
      alias == NormalizeCustomAlias(customAlias)
  IN IF ValidateUrl(originalUrl) # UrlErrNone
     THEN same(UrlThrew("shorten", ValidateUrl(originalUrl)))
     ELSE IF HasExisting(o2c, originalUrl)
     THEN same(ShortenResult(o2c[originalUrl], originalUrl,
                             "URL already shortened", FALSE))
     ELSE IF customAlias # << >>
     THEN IF alias.err # UrlErrNone
          THEN same(UrlThrew("shorten", alias.err))
          ELSE IF AliasTaken(c2i, alias.alias)
          THEN UrlOut(um, c2i, Put(o2c, originalUrl, alias.alias), fl,
                      UrlThrew("shorten", "ALIAS_COLLISION"))
          ELSE StoreOp(um, c2i, o2c, fl, originalUrl, alias.alias, FALSE, t)
     ELSE UrlOut(um, c2i, o2c,
                 Append(fl, Suspended(originalUrl, "generated",
                                      GenerateUniqueShortCode(originalUrl),
                                      Resolved(<< >>))),
                 ShortenPending(originalUrl))

\* shorten(originalUrl, {customAlias}) up to its first await or, when it
\* reaches none, its end.  customAlias << >> is an alias left out or empty.
ShortenOp(um, c2i, o2c, fl, originalUrl, customAlias, t) ==
  LET same(r) == UrlOut(um, c2i, o2c, fl, r)
      alias == NormalizeCustomAlias(customAlias)
  IN IF ValidateUrl(originalUrl) # UrlErrNone
     THEN same(UrlThrew("shorten", ValidateUrl(originalUrl)))
     ELSE IF HasExisting(o2c, originalUrl)
     THEN same(ShortenResult(o2c[originalUrl], originalUrl,
                             "URL already shortened", FALSE))
     ELSE IF customAlias # << >>
     THEN IF alias.err # UrlErrNone
          THEN same(UrlThrew("shorten", alias.err))
          ELSE IF AliasTaken(c2i, alias.alias)
          THEN same(UrlThrew("shorten", "ALIAS_COLLISION"))
          ELSE StoreOp(um, c2i, o2c, fl, originalUrl, alias.alias, FALSE, t)
     ELSE UrlOut(um, c2i, o2c,
                 Append(fl, Suspended(originalUrl, "generated",
                                      GenerateUniqueShortCode(originalUrl),
                                      Resolved(<< >>))),
                 ShortenPending(originalUrl))

\* the suspended call `call` runs on at time t, its await settled: every
\* outcome, fl being the calls suspended behind it
ResumeOp(um, c2i, o2c, fl, call, t) ==
  IF call.pc = "generated"
  THEN IF Has(c2i, call.shortCode)
       THEN {UrlOut(um, c2i, o2c,
                    Append(fl, Suspended(call.originalUrl, "resolved",
                                         call.shortCode, res)),
                    ShortenPending(call.originalUrl))
             : res \in ResolveCollision(c2i, call.shortCode,
                                        call.originalUrl, t)}
       ELSE {StoreOp(um, c2i, o2c, fl, call.originalUrl, call.shortCode,
                     FALSE, t)}
  ELSE IF call.res.err # UrlErrNone
       THEN {UrlOut(um, c2i, o2c, fl, UrlThrew("shorten", call.res.err))}
       ELSE {StoreOp(um, c2i, o2c, fl, call.originalUrl, call.res.shortCode,
                     TRUE, t)}

\* an expand that does not count the click
ExpandOpNoCount(um, c2i, shortCode) ==
  [urlMap |-> um,
   r |-> [op |-> "expand", err |-> UrlErrNone,
          success |-> Has(c2i, shortCode), shortCode |-> shortCode,
          originalUrl |-> << >>, message |-> "",
          collisionResolved |-> FALSE]]

\* an expand that lets the NOT_FOUND error escape
ExpandOpRejects(um, c2i, shortCode) ==
  IF Has(c2i, shortCode)
  THEN [urlMap |-> [um EXCEPT ![c2i[shortCode]].clickCount = @ + 1],
        r |-> [op |-> "expand", err |-> UrlErrNone, success |-> TRUE,
               shortCode |-> shortCode,
               originalUrl |-> um[c2i[shortCode]].originalUrl,
               message |-> "", collisionResolved |-> FALSE]]
  ELSE [urlMap |-> um,
        r |-> [UrlThrew("expand", "NOT_FOUND") EXCEPT !.shortCode = shortCode]]

\* error.message of the URLShortenerError with this code that expand catches
ErrorMessage(code) ==
  CASE code = "INVALID_SHORT_CODE_TYPE" ->
         "Short code must be a non-empty string"
    [] code = "SHORT_CODE_TOO_LONG" -> "Short code too long"
    [] code = "INVALID_SHORT_CODE_CHARS" ->
         "Short code can only contain letters, numbers, dashes, and underscores"
    [] code = "NOT_FOUND" -> "Short URL not found"
    [] code = "DATA_CORRUPTED" -> "Short URL data corrupted"

\* expand(shortCode): where it catches an error it throws nothing and returns
\* { success: false, message: error.message }, without an originalUrl
ExpandOp(um, c2i, shortCode) ==
  LET failed(code) ==
        [urlMap |-> um,
         r |-> [op |-> "expand", err |-> UrlErrNone, success |-> FALSE,
                shortCode |-> shortCode, originalUrl |-> << >>,
                message |-> ErrorMessage(code), collisionResolved |-> FALSE]]
  IN IF ValidateShortCode(shortCode) # UrlErrNone
     THEN failed(ValidateShortCode(shortCode))
     ELSE IF ~Has(c2i, shortCode) THEN failed("NOT_FOUND")
     ELSE IF ~Has(um, c2i[shortCode]) THEN failed("DATA_CORRUPTED")
     ELSE [urlMap |-> [um EXCEPT ![c2i[shortCode]].clickCount = @ + 1],
           r |-> [op |-> "expand", err |-> UrlErrNone, success |-> TRUE,
                  shortCode |-> shortCode,
                  originalUrl |-> um[c2i[shortCode]].originalUrl,
                  message |-> "", collisionResolved |-> FALSE]]

\* getStats(shortCode): null, or a copy { ...url } of the record; the result
\* is held as the set of the records returned, which null leaves empty
NullStats == {}
UrlGetStatsOp(um, c2i, shortCode) ==
  IF ~Has(c2i, shortCode) \/ ~Has(um, c2i[shortCode])
  THEN NullStats
  ELSE {um[c2i[shortCode]]}

\* a deleteUrl that forgets the index by original URL
DeleteUrlOpKeepsUrl(um, c2i, o2c, fl, shortCode) ==
  [urlMap |-> IF Has(c2i, shortCode) THEN Del(um, c2i[shortCode]) ELSE um,
   codeToIdMap |-> Del(c2i, shortCode),
   originalUrlToCodeMap |-> o2c,
   inflight |-> fl,
   r |-> [op |-> "deleteUrl", err |-> UrlErrNone,
          success |-> Has(c2i, shortCode), shortCode |-> shortCode,
          originalUrl |-> << >>, message |-> "",
          collisionResolved |-> FALSE]]

\* deleteUrl(shortCode)
DeleteUrlOp(um, c2i, o2c, fl, shortCode) ==
  LET r(deleted) ==
        [op |-> "deleteUrl", err |-> UrlErrNone, success |-> deleted,
         shortCode |-> shortCode, originalUrl |-> << >>, message |-> "",
         collisionResolved |-> FALSE]
  IN IF ~Has(c2i, shortCode) \/ ~Has(um, c2i[shortCode])
     THEN UrlOut(um, c2i, o2c, fl, r(FALSE))
     ELSE UrlOut(Del(um, c2i[shortCode]),
                 Del(c2i, shortCode),
                 Del(o2c, um[c2i[shortCode]].originalUrl),
                 fl, r(TRUE))

MaxClicks == 1  \* no further expand of a record that has this many clicks

\* "http://a/Aa" and "http://a/BB", which generateHash maps to one number,
\* and "mailto:x"
UrlAa == <<104, 116, 116, 112, 58, 47, 47, 97, 47, 65, 97>>
UrlBB == <<104, 116, 116, 112, 58, 47, 47, 97, 47, 66, 66>>
UrlMail == <<109, 97, 105, 108, 116, 111, 58, 120>>
ValidUrlInputs == {UrlAa, UrlBB, UrlMail}
\* "http://a/aaa...a", one character longer than validateUrl allows
LongUrl == SubSeq(UrlAa, 1, 9) \o [i \in 1..(MaxUrlLength - 8) |-> 97]
\* '', "a/Aa" (no scheme), "ws://a" (a scheme not allowed), "http://" (no
\* host)
InvalidUrlInputs ==
  {<< >>, <<97, 47, 65, 97>>, <<119, 115, 58, 47, 47, 97>>,
   <<104, 116, 116, 112, 58, 47, 47>>, LongUrl}
UrlInputs == ValidUrlInputs \cup InvalidUrlInputs
\* no alias, "Ab" and "A!b" (both normalized to "ab"), "a!" (too short once
\* normalized)
AliasInputs == {<< >>, <<65, 98>>, <<65, 33, 98>>, <<97, 33>>}
\* the short codes tried: those stored, '', "a!" and "zz"
ShortCodeInputs ==
  DOMAIN codeToIdMap \cup {<< >>, <<97, 33>>, <<122, 122>>}

Url == subject = "URLShortener" \/ Mocked

Shorten(originalUrl, customAlias) ==
  /\ Url
  /\ LET res == ShortenOp(urlMap, codeToIdMap, originalUrlToCodeMap, inflight,
                          originalUrl, customAlias, now)
     IN /\ \/ Cardinality(DOMAIN urlMap) < MaxRecords
           \/ res.urlMap = urlMap /\ res.inflight = inflight
        /\ urlMap' = res.urlMap
        /\ codeToIdMap' = res.codeToIdMap
        /\ originalUrlToCodeMap' = res.originalUrlToCodeMap
        /\ inflight' = res.inflight
        /\ ret' = res.r
  /\ UNCHANGED <<subject, now, baseVars, userVars, distVars>>

\* the microtask queue runs the continuation of the call suspended longest
ShortenResume ==
  /\ Url
  /\ inflight # << >>
  /\ \E res \in ResumeOp(urlMap, codeToIdMap, originalUrlToCodeMap,
                         Tail(inflight), Head(inflight), now) :
       /\ urlMap' = res.urlMap
       /\ codeToIdMap' = res.codeToIdMap
       /\ originalUrlToCodeMap' = res.originalUrlToCodeMap
       /\ inflight' = res.inflight
       /\ ret' = res.r
  /\ UNCHANGED <<subject, now, baseVars, userVars, distVars>>

Expand(shortCode) ==
  /\ Url
  /\ Has(codeToIdMap, shortCode) /\ Has(urlMap, codeToIdMap[shortCode])
       => urlMap[codeToIdMap[shortCode]].clickCount < MaxClicks
  /\ LET res == ExpandOp(urlMap, codeToIdMap, shortCode)
     IN /\ urlMap' = res.urlMap
        /\ ret' = res.r
  /\ UNCHANGED <<subject, now, baseVars, userVars, distVars, codeToIdMap,
                 originalUrlToCodeMap, inflight>>

DeleteUrl(shortCode) ==
  /\ Url
  /\ LET res == DeleteUrlOp(urlMap, codeToIdMap, originalUrlToCodeMap,
                            inflight, shortCode)
     IN /\ urlMap' = res.urlMap
        /\ codeToIdMap' = res.codeToIdMap
        /\ originalUrlToCodeMap' = res.originalUrlToCodeMap
        /\ inflight' = res.inflight
        /\ ret' = res.r
  /\ UNCHANGED <<subject, now, baseVars, userVars, distVars>>

UrlGetStats(shortCode) ==
  /\ Url
  /\ ret' = [op |-> "getStats", err |-> UrlErrNone,
             success |-> UrlGetStatsOp(urlMap, codeToIdMap, shortCode)
                           # NullStats,
             shortCode |-> shortCode, originalUrl |-> << >>, message |-> "",
             collisionResolved |-> FALSE,
             stats |-> UrlGetStatsOp(urlMap, codeToIdMap, shortCode)]
  /\ UNCHANGED <<subject, now, baseVars, userVars, distVars, urlVars>>

\* the clock moves on between tasks, when no continuation waits
UrlTick == inflight = << >> /\ Tick /\ now' > now

\* a URLShortener as its constructor leaves it
InitUrl ==
  /\ subject = "URLShortener"
  /\ now \in Times
  /\ buckets = << >> /\ tb = NoBucket /\ tbQueue = << >>
  /\ ret = Returned("new", EmptyKey)
  /\ tally = NoTally
  /\ UserIdle /\ DistIdle /\ UrlIdle

\* the caller awaits each call before it makes the next
AwaitedShorten(originalUrl, customAlias) ==
  inflight = << >> /\ Shorten(originalUrl, customAlias)
AwaitedExpand(shortCode) == inflight = << >> /\ Expand(shortCode)
AwaitedDeleteUrl(shortCode) == inflight = << >> /\ DeleteUrl(shortCode)
AwaitedGetStats(shortCode) == inflight = << >> /\ UrlGetStats(shortCode)

\* a URLShortener whose generateHash the test has replaced
InitMocked ==
  /\ Mocked
  /\ now \in Times
  /\ buckets = << >> /\ tb = NoBucket /\ tbQueue = << >>
  /\ ret = Returned("new", EmptyKey)
  /\ tally = NoTally
  /\ UserIdle /\ DistIdle /\ UrlIdle

NextUrl ==
  \/ \E u \in UrlInputs, a \in AliasInputs : AwaitedShorten(u, a)
  \/ ShortenResume
  \/ \E c \in ShortCodeInputs : AwaitedExpand(c)
  \/ \E c \in ShortCodeInputs : AwaitedDeleteUrl(c)
  \/ \E c \in ShortCodeInputs : AwaitedGetStats(c)
  \/ UrlTick

SpecUrl == InitUrl /\ [][NextUrl]_vars
SpecMocked == InitMocked /\ [][NextUrl]_vars

\* C20: shortening is idempotent per URL.  In every reachable state, for
\* every stored record and whatever alias is passed, shorten of the record's
\* URL returns at once, successfully, with the record's shortCode, and
\* leaves the three maps as they are: no second record, and the record's
\* id, createdAt and clickCount unchanged.
C20_ShortenIdempotentPerUrl ==
  Url =>
    \A id \in DOMAIN urlMap, a \in AliasInputs :
      LET res == ShortenOp(urlMap, codeToIdMap, originalUrlToCodeMap,
                           inflight, urlMap[id].originalUrl, a, now)
      IN /\ res.r.op = "shorten"
         /\ res.r.success
         /\ res.r.shortCode = urlMap[id].shortCode
         /\ res.urlMap = urlMap
         /\ res.codeToIdMap = codeToIdMap
         /\ res.originalUrlToCodeMap = originalUrlToCodeMap
         /\ res.inflight = inflight

\* a second shorten of a stored URL has returned, with two records stored of
\* which the URL's own has been expanded
C20_Witness ==
  /\ Url
  /\ ret.op = "shorten"
  /\ ret.message = "URL already shortened"
  /\ Cardinality(DOMAIN urlMap) = 2
  /\ \E id \in DOMAIN urlMap :
       /\ urlMap[id].originalUrl = ret.originalUrl
       /\ urlMap[id].shortCode = ret.shortCode
       /\ urlMap[id].clickCount > 0

\* C21: custom aliases are exclusive.  In every reachable state, for every
\* valid URL without a record and every alias that normalizes to a code c:
\* when c is free, shorten succeeds and stores the URL under c; when c is
\* assigned, shorten fails with ALIAS_COLLISION at once (no call is left
\* suspended and no other code is tried), the maps are as they were, so the
\* URL has no record, and the record that holds c is still returned by
\* getStats(c) and expanded by c.
C21_CustomAliasExclusive ==
  Url =>
    \A u \in ValidUrlInputs, a \in AliasInputs :
      LET alias == NormalizeCustomAlias(a)
          res == ShortenOp(urlMap, codeToIdMap, originalUrlToCodeMap,
                           inflight, u, a, now)
      IN a # << >> /\ alias.err = UrlErrNone
           /\ ~Has(originalUrlToCodeMap, u) =>
           IF Has(codeToIdMap, alias.alias)
           THEN /\ res.r.err = "ALIAS_COLLISION"
                /\ res.urlMap = urlMap
                /\ res.codeToIdMap = codeToIdMap
                /\ res.originalUrlToCodeMap = originalUrlToCodeMap
                /\ res.inflight = inflight
                /\ \A id \in DOMAIN res.urlMap :
                     res.urlMap[id].originalUrl # u
                /\ UrlGetStatsOp(res.urlMap, res.codeToIdMap, alias.alias)
                     = {urlMap[codeToIdMap[alias.alias]]}
                /\ ExpandOp(res.urlMap, res.codeToIdMap, alias.alias).r.success
                /\ ExpandOp(res.urlMap, res.codeToIdMap,
                            alias.alias).r.originalUrl
                     = urlMap[codeToIdMap[alias.alias]].originalUrl
           ELSE /\ res.r.err = UrlErrNone /\ res.r.success
                /\ res.r.shortCode = alias.alias
                /\ res.inflight = inflight
                /\ Has(res.codeToIdMap, alias.alias)
                /\ res.urlMap[res.codeToIdMap[alias.alias]].originalUrl = u

\* a shorten has failed with ALIAS_COLLISION while the alias "ab" belongs to
\* a record that has been expanded
C21_Witness ==
  /\ Url
  /\ ret.op = "shorten" /\ ret.err = "ALIAS_COLLISION"
  /\ Has(codeToIdMap, <<97, 98>>)
  /\ urlMap[codeToIdMap[<<97, 98>>]].clickCount > 0

\* await shorten(originalUrl, {customAlias}) at time t with no other call in
\* between: every result the call can settle with, none left suspended
ShortenAwaited(um, c2i, o2c, originalUrl, customAlias, t) ==
  LET run(s) ==
        IF s.inflight = << >> THEN {s}
        ELSE ResumeOp(s.urlMap, s.codeToIdMap, s.originalUrlToCodeMap,
                      << >>, s.inflight[1], t)
  IN UNION {run(s) :
              s \in run(ShortenOp(um, c2i, o2c, << >>, originalUrl,
                                  customAlias, t))}

\* C22: with generateHash replaced by a function that always collides, and
\* every hash-derived candidate of a new URL (the generated code and the
\* codes of hash(originalUrl + attempts)) assigned to other URLs, shorten of
\* that URL without an alias fails with COLLISION_RESOLUTION_FAILED and
\* stores nothing.
C22_ForcedCollisionsExhaustRetries ==
  Mocked =>
    \A u \in ValidUrlInputs :
      /\ ~Has(originalUrlToCodeMap, u)
      /\ Has(codeToIdMap, GenerateUniqueShortCode(u))
      /\ \A attempts \in 1..MAX_COLLISION_RETRIES :
           Has(codeToIdMap,
               Substring0(EncodeBase62(Hash(Append(u, 48 + attempts))),
                          DEFAULT_SHORT_CODE_LENGTH))
      => \A out \in ShortenAwaited(urlMap, codeToIdMap, originalUrlToCodeMap,
                                   u, << >>, now) :
           /\ out.r.err = "COLLISION_RESOLUTION_FAILED"
           /\ out.urlMap = urlMap
           /\ out.codeToIdMap = codeToIdMap
           /\ out.originalUrlToCodeMap = originalUrlToCodeMap

\* C23: in every reachable state, an awaited shorten without an alias of a
\* valid URL that has no record behaves so.  When the URL's hash-derived code
\* is assigned (to another URL), a successful call returns a code that was
\* not assigned when it was called and collisionResolved = true, and
\* afterwards expand of the new code gives the new URL and expand of the
\* hash-derived code still gives the URL that held it.  When the
\* hash-derived code is free, the call succeeds with that code and
\* collisionResolved = false.
C23_CollisionResolvedToFreeCode ==
  Url =>
    \A u \in ValidUrlInputs :
      ~Has(originalUrlToCodeMap, u) =>
        \A out \in ShortenAwaited(urlMap, codeToIdMap, originalUrlToCodeMap,
                                  u, << >>, now) :
          LET code == GenerateUniqueShortCode(u)
              expand(c) == ExpandOp(out.urlMap, out.codeToIdMap, c).r
          IN IF Has(codeToIdMap, code)
             THEN out.r.success =>
                    /\ ~Has(codeToIdMap, out.r.shortCode)
                    /\ out.r.collisionResolved
                    /\ expand(out.r.shortCode).success
                    /\ expand(out.r.shortCode).originalUrl = u
                    /\ expand(code).success
                    /\ expand(code).originalUrl
                         = urlMap[codeToIdMap[code]].originalUrl
                    /\ urlMap[codeToIdMap[code]].originalUrl # u
             ELSE /\ out.r.success
                  /\ out.r.shortCode = code
                  /\ ~out.r.collisionResolved

\* a shorten has returned collisionResolved = true, and the record that
\* holds the hash-derived code of its URL belongs to another URL
C23_Witness ==
  /\ Url
  /\ ret.op = "shorten" /\ ret.success /\ ret.collisionResolved
  /\ ret.shortCode # GenerateUniqueShortCode(ret.originalUrl)
  /\ Has(codeToIdMap, ret.shortCode)
  /\ Has(codeToIdMap, GenerateUniqueShortCode(ret.originalUrl))
  /\ urlMap[codeToIdMap[GenerateUniqueShortCode(ret.originalUrl)]].originalUrl
       # ret.originalUrl

\* the click counts of the records: id -> clickCount
Clicks(um) == [id \in DOMAIN um |-> um[id].clickCount]

\* C24: clickCount counts the successful expands of a record.  In every
\* reachable state no count is negative, and every call behaves so: a
\* successful expand adds 1 to the count of the record of its code and
\* leaves every other count; a failed expand leaves every count (getStats
\* writes no map at all: see UrlGetStats);
\* shorten (of a stored URL or not, settled or suspended) leaves the count of
\* every record there was and gives a record it stores the count 0;
\* deleteUrl leaves the count of every record it does not delete.
C24_ClickCountCountsExpands ==
  Url =>
    /\ \A id \in DOMAIN urlMap : urlMap[id].clickCount >= 0
    /\ \A c \in ShortCodeInputs :
         LET res == ExpandOp(urlMap, codeToIdMap, c)
         IN IF res.r.success
            THEN Clicks(res.urlMap) =
                   [Clicks(urlMap) EXCEPT ![codeToIdMap[c]] = @ + 1]
            ELSE res.urlMap = urlMap
    /\ \A u \in UrlInputs, a \in AliasInputs :
         \A out \in ShortenAwaited(urlMap, codeToIdMap, originalUrlToCodeMap,
                                   u, a, now)
                      \cup {ShortenOp(urlMap, codeToIdMap,
                                      originalUrlToCodeMap, inflight, u, a,
                                      now)} :
           /\ \A id \in DOMAIN urlMap :
                Has(out.urlMap, id) /\ out.urlMap[id] = urlMap[id]
           /\ \A id \in DOMAIN out.urlMap \ DOMAIN urlMap :
                out.urlMap[id].clickCount = 0
    /\ \A c \in ShortCodeInputs :
         LET res == DeleteUrlOp(urlMap, codeToIdMap, originalUrlToCodeMap,
                                inflight, c)
         IN \A id \in DOMAIN res.urlMap :
              Has(urlMap, id) /\ res.urlMap[id] = urlMap[id]

\* an expand has succeeded and its record's count is 1, while another
\* record's count is still 0
C24_Witness ==
  /\ Url
  /\ ret.op = "expand" /\ ret.success
  /\ Cardinality(DOMAIN urlMap) = 2
  /\ urlMap[codeToIdMap[ret.shortCode]].clickCount = 1
  /\ \E id \in DOMAIN urlMap : urlMap[id].clickCount = 0

\* C25: in every reachable state, expand of a well-formed code that has no
\* record throws nothing and returns success = false with a message and no
\* originalUrl, leaving every record as it is (expand writes no index), and
\* getStats of that code returns null.  The codes tried are those of the
\* inputs, the alias "ab" and the hash-derived code of every URL.
C25_UnknownCodeIsAbsentResult ==
  Url =>
    \A c \in ShortCodeInputs \cup {<<97, 98>>}
               \cup {GenerateUniqueShortCode(u) : u \in ValidUrlInputs} :
      ValidateShortCode(c) = UrlErrNone /\ ~Has(codeToIdMap, c) =>
        LET res == ExpandOp(urlMap, codeToIdMap, c)
        IN /\ res.r.op = "expand"
           /\ res.r.err = UrlErrNone
           /\ ~res.r.success
           /\ res.r.originalUrl = << >>
           /\ res.r.message = "Short URL not found"
           /\ res.urlMap = urlMap
           /\ UrlGetStatsOp(urlMap, codeToIdMap, c) = NullStats

\* expand has returned "not found" while two records are stored, one of
\* them expanded before
C25_Witness ==
  /\ Url
  /\ ret.op = "expand" /\ ~ret.success
  /\ ret.message = "Short URL not found"
  /\ ~Has(codeToIdMap, ret.shortCode)
  /\ Cardinality(DOMAIN urlMap) = 2
  /\ \E id \in DOMAIN urlMap : urlMap[id].clickCount > 0

\* C26: an expand called with an empty short code, or with one that holds a
\* character outside [A-Za-z0-9_-], has thrown a URLShortenerError (its
\* promise is rejected): it has not returned a result.
C26_InvalidCodeRejects ==
  Url /\ ret.op = "expand"
      /\ ValidateShortCode(ret.shortCode)
           \in {"INVALID_SHORT_CODE_TYPE", "INVALID_SHORT_CODE_CHARS"}
    => ret.err # UrlErrNone

\* C27: in every reachable state, deleteUrl(c) of a code that has a record r
\* returns true and leaves no entry for r.id in urlMap, none for c in
\* codeToIdMap and none for r.originalUrl in originalUrlToCodeMap, while
\* every other entry of the three maps is as it was; deleteUrl of a code
\* without a record returns false and changes nothing.
C27_DeleteRemovesFromAllIndices ==
  Url =>
    \A c \in ShortCodeInputs :
      LET res == DeleteUrlOp(urlMap, codeToIdMap, originalUrlToCodeMap,
                             inflight, c)
      IN /\ res.r.op = "deleteUrl" /\ res.inflight = inflight
         /\ IF Has(codeToIdMap, c) /\ Has(urlMap, codeToIdMap[c])
            THEN LET r == urlMap[codeToIdMap[c]]
                 IN /\ res.r.success
                    /\ DOMAIN res.urlMap = DOMAIN urlMap \ {r.id}
                    /\ DOMAIN res.codeToIdMap = DOMAIN codeToIdMap \ {c}
                    /\ DOMAIN res.originalUrlToCodeMap
                         = DOMAIN originalUrlToCodeMap \ {r.originalUrl}
                    /\ r.id \in DOMAIN urlMap
                    /\ r.originalUrl \in DOMAIN originalUrlToCodeMap
                    /\ \A id \in DOMAIN res.urlMap :
                         res.urlMap[id] = urlMap[id]
                    /\ \A k \in DOMAIN res.codeToIdMap :
                         res.codeToIdMap[k] = codeToIdMap[k]
                    /\ \A u \in DOMAIN res.originalUrlToCodeMap :
                         res.originalUrlToCodeMap[u] = originalUrlToCodeMap[u]
            ELSE /\ ~res.r.success
                 /\ res.urlMap = urlMap
                 /\ res.codeToIdMap = codeToIdMap
                 /\ res.originalUrlToCodeMap = originalUrlToCodeMap

\* a deleteUrl has returned true and left the other stored record, which
\* has been expanded, in place
C27_Witness ==
  /\ Url
  /\ ret.op = "deleteUrl" /\ ret.success
  /\ ~Has(codeToIdMap, ret.shortCode)
  /\ Cardinality(DOMAIN urlMap) = 1
  /\ \E id \in DOMAIN urlMap : urlMap[id].clickCount > 0

\* C28: in every reachable state and for every stored record r, once
\* deleteUrl(r.shortCode) has succeeded, expand(r.shortCode) fails as not
\* found, and an awaited shorten of r.originalUrl succeeds and stores a fresh
\* record: its click count is 0, its code is not r.shortCode, and its id is
\* not r.id (two ids made in the same millisecond differ by their random
\* part only, which is not compared here).
C28_DeleteThenShortenIsFresh ==
  Url =>
    \A id \in DOMAIN urlMap :
      LET r == urlMap[id]
          del == DeleteUrlOp(urlMap, codeToIdMap, originalUrlToCodeMap,
                             inflight, r.shortCode)
          exp == ExpandOp(del.urlMap, del.codeToIdMap, r.shortCode)
      IN del.r.success =>
           /\ ~exp.r.success
           /\ exp.r.message = "Short URL not found"
           /\ \A out \in ShortenAwaited(del.urlMap, del.codeToIdMap,
                                        del.originalUrlToCodeMap,
                                        r.originalUrl, << >>, now) :
                /\ out.r.success
                /\ LET fresh == out.urlMap[out.codeToIdMap[out.r.shortCode]]
                   IN /\ fresh.originalUrl = r.originalUrl
                      /\ fresh.clickCount = 0
                      /\ fresh.shortCode # r.shortCode
                      /\ fresh.id # r.id \/ r.createdAt = now

\* C29: a shorten that fails changes nothing.  In every reachable state, for
\* every URL and alias, a shorten that throws before its first await leaves
\* the three maps and the suspended calls as they were, an awaited shorten
\* that settles with an error leaves the three maps as they were, and so
\* does the continuation of the call suspended longest when it throws.
C29_FailedShortenChangesNothing ==
  Url =>
    /\ \A u \in UrlInputs, a \in AliasInputs :
         /\ LET res == ShortenOp(urlMap, codeToIdMap, originalUrlToCodeMap,
                                 inflight, u, a, now)
            IN res.r.err # UrlErrNone =>
                 /\ res.urlMap = urlMap
                 /\ res.codeToIdMap = codeToIdMap
                 /\ res.originalUrlToCodeMap = originalUrlToCodeMap
                 /\ res.inflight = inflight
         /\ \A out \in ShortenAwaited(urlMap, codeToIdMap,
                                      originalUrlToCodeMap, u, a, now) :
              out.r.err # UrlErrNone =>
                /\ out.urlMap = urlMap
                /\ out.codeToIdMap = codeToIdMap
                /\ out.originalUrlToCodeMap = originalUrlToCodeMap
    /\ inflight # << >> =>
         \A res \in ResumeOp(urlMap, codeToIdMap, originalUrlToCodeMap,
                             Tail(inflight), Head(inflight), now) :
           res.r.err # UrlErrNone =>
             /\ res.urlMap = urlMap
             /\ res.codeToIdMap = codeToIdMap
             /\ res.originalUrlToCodeMap = originalUrlToCodeMap

\* a shorten has failed on a URL that is too long, with two records stored
\* whose codes leave a third URL's shorten able to exhaust its retries
C29_Witness ==
  /\ Url
  /\ ret.op = "shorten" /\ ret.err = "URL_TOO_LONG"
  /\ Cardinality(DOMAIN urlMap) = 2
  /\ \E u \in ValidUrlInputs :
       \E out \in ShortenAwaited(urlMap, codeToIdMap, originalUrlToCodeMap,
                                 u, << >>, now) :
         out.r.err = "COLLISION_RESOLUTION_FAILED"

\* C30: in every state reached by shorten, expand and deleteUrl calls made
\* one at a time, the three maps describe the same records: every record r
\* of urlMap is stored under r.id, codeToIdMap maps r.shortCode to r.id and
\* originalUrlToCodeMap maps r.originalUrl to r.shortCode; every entry of
\* codeToIdMap and of originalUrlToCodeMap belongs to such a record; and no
\* two records share a shortCode or an originalUrl.
C30_IndicesDescribeSameRecords ==
  Url =>
    /\ \A id \in DOMAIN urlMap :
         LET r == urlMap[id]
         IN /\ r.id = id
            /\ Has(codeToIdMap, r.shortCode)
            /\ codeToIdMap[r.shortCode] = id
            /\ Has(originalUrlToCodeMap, r.originalUrl)
            /\ originalUrlToCodeMap[r.originalUrl] = r.shortCode
    /\ \A c \in DOMAIN codeToIdMap :
         /\ Has(urlMap, codeToIdMap[c])
         /\ urlMap[codeToIdMap[c]].shortCode = c
    /\ \A u \in DOMAIN originalUrlToCodeMap :
         /\ Has(codeToIdMap, originalUrlToCodeMap[u])
         /\ Has(urlMap, codeToIdMap[originalUrlToCodeMap[u]])
         /\ urlMap[codeToIdMap[originalUrlToCodeMap[u]]].originalUrl = u
    /\ \A i, j \in DOMAIN urlMap :
         i # j => /\ urlMap[i].shortCode # urlMap[j].shortCode
                  /\ urlMap[i].originalUrl # urlMap[j].originalUrl

\* a shorten has stored a URL under the alias "ab" beside a record that has
\* been expanded, and no call is suspended
C30_Witness ==
  /\ Url
  /\ inflight = << >>
  /\ ret.op = "shorten" /\ ret.success /\ ret.message = ""
  /\ ret.shortCode = <<97, 98>>
  /\ Cardinality(DOMAIN urlMap) = 2
  /\ \E id \in DOMAIN urlMap : urlMap[id].clickCount > 0

\* ------------------------------------------- the shape of the short codes
\* "http://a/ypcA0Z": generateHash's loop ends on -1, so the hash is 1 and
\* the code generateUniqueShortCode pads from it is "100000"; the hash of
\* the URL followed by "1" is 18, the base-62 digit 'I'
UrlTiny ==
  <<104, 116, 116, 112, 58, 47, 47, 97, 47, 121, 112, 99, 65, 48, 90>>
\* the custom alias "100000"
AliasTiny == <<49, 48, 48, 48, 48, 48>>

\* awaited calls on "mailto:x" and "http://a/ypcA0Z", with and without the
\* alias "100000"
NextTiny ==
  \/ \E u \in {UrlMail, UrlTiny}, a \in {<< >>, AliasTiny} :
       AwaitedShorten(u, a)
  \/ ShortenResume
  \/ \E c \in DOMAIN codeToIdMap : AwaitedExpand(c)
  \/ \E c \in DOMAIN codeToIdMap : AwaitedDeleteUrl(c)
  \/ UrlTick

SpecTiny == InitUrl /\ [][NextTiny]_vars

\* no call rewrites the shortCode of a stored record
ShortCodeKept ==
  [][\A id \in DOMAIN urlMap \cap DOMAIN urlMap' :
       urlMap'[id].shortCode = urlMap[id].shortCode]_vars

\* C31: every shortCode shorten assigns, from the hash, from any strategy of
\* resolveCollision or from a normalized alias, has between 2 and 20
\* characters, all of them letters, digits, '-' or '_'.
C31_ShortCodeShape ==
  Url =>
    \A id \in DOMAIN urlMap :
      LET shortCode == urlMap[id].shortCode IN
      /\ Len(shortCode) >= 2
      /\ Len(shortCode) <= MAX_CUSTOM_ALIAS_LENGTH
      /\ \A i \in 1..Len(shortCode) : ShortCodeChar(shortCode[i])

\* ------------------------------------------------ overlapping shorten calls
MaxInflight == 2  \* shorten calls suspended at an await at any time

\* shorten is called while earlier calls are still suspended: the caller
\* does not await them
OverlappedShorten(originalUrl) ==
  /\ Len(inflight) < MaxInflight
  /\ Shorten(originalUrl, << >>)

\* calls of shorten on two URLs of one hash, awaited or not
NextOverlap ==
  \/ \E u \in {UrlAa, UrlBB} : OverlappedShorten(u)
  \/ ShortenResume
  \/ UrlTick

SpecOverlap == InitUrl /\ [][NextOverlap]_vars

\* C32: whatever the interleaving of shorten calls at their awaits, no two
\* stored records have the same originalUrl, no two have the same shortCode,
\* and every record is found under its shortCode and its originalUrl in the
\* two indices, which hold nothing else.
C32_OverlappingShortenSafe ==
  Url =>
    /\ \A i, j \in DOMAIN urlMap :
         i # j => /\ urlMap[i].originalUrl # urlMap[j].originalUrl
                  /\ urlMap[i].shortCode # urlMap[j].shortCode
    /\ \A i \in DOMAIN urlMap :
         /\ Has(codeToIdMap, urlMap[i].shortCode)
         /\ codeToIdMap[urlMap[i].shortCode] = i
         /\ Has(originalUrlToCodeMap, urlMap[i].originalUrl)
         /\ originalUrlToCodeMap[urlMap[i].originalUrl] = urlMap[i].shortCode
    /\ Cardinality(DOMAIN codeToIdMap) = Cardinality(DOMAIN urlMap)
    /\ Cardinality(DOMAIN originalUrlToCodeMap) = Cardinality(DOMAIN urlMap)

\* ------------- DistributedTokenBucket: two keys, any amounts, a free clock
\* the configurations of the instances: no initialTokens, or initialTokens 0
DistConfigInputs ==
  {MkTBConfig(c * Scale, r, FALSE, 0, FALSE, 0) : c \in 1..MaxCap, r \in Rates}
  \cup {MkTBConfig(c * Scale, 1, TRUE, 0, FALSE, 0) : c \in 1..MaxCap}

\* instance 1 is made with key "k1" and instance 2 with key "k2", over one
\* InMemoryStorage that has nothing yet; call p is made on instance
\* 1 + (p mod 2)
InitDist ==
  /\ subject = "DistributedTokenBucket"
  /\ now \in Times
  /\ buckets = << >> /\ tb = NoBucket /\ tbQueue = << >>
  /\ ret = Returned("new", EmptyKey)
  /\ tally = NoTally
  /\ UserIdle /\ UrlIdle
  /\ \E c \in DistConfigInputs :
       instances = [i \in 1..2 |->
                      [key |-> IF i = 1 THEN "k1" ELSE "k2", config |-> c]]
  /\ storage = << >>
  /\ locks = << >>
  /\ procs = [p \in 1..DistCalls |-> IdleProc(1 + (p % 2))]

DistTryConsume(p) ==
  \E n \in AmountInputs : DistTryConsumeStep(p, n) /\ UNCHANGED tally
DistSpin(p) == DistSpinStep(p) /\ UNCHANGED tally
DistGetState(p) == DistGetStateStep(p) /\ UNCHANGED tally
DistDecide(p) == DistDecideStep(p) /\ UNCHANGED tally
DistReturn(p) == DistReturnStep(p) /\ UNCHANGED tally
\* Date.now() changes, forwards or backwards
DistTick == Dist /\ Tick

NextDist ==
  \/ \E p \in DOMAIN procs : DistTryConsume(p)
  \/ \E p \in DOMAIN procs : DistSpin(p)
  \/ \E p \in DOMAIN procs : DistGetState(p)
  \/ \E p \in DOMAIN procs : DistDecide(p)
  \/ \E p \in DOMAIN procs : DistReturn(p)
  \/ DistTick

SpecDist == InitDist /\ [][NextDist]_vars

\* C33: DistributedTokenBucket.tryConsume treats a clock that reads earlier
\* than the stored lastRefillTime as no time elapsed: its decision and the
\* remaining tokens are those of a call made at lastRefillTime, the remaining
\* tokens are not negative, and the lastRefillTime it stores is not earlier
\* than the one it read.
C33_DistClockRegressionGuarded ==
  Dist =>
    \A i \in DOMAIN instances :
      LET config == instances[i].config
          read == GetState(storage, instances[i].key)
      IN read.present /\ now < read.state.lastRefillTime =>
           \A n \in {a \in AmountInputs : a > 0 /\ a <= config.capacity} :
             LET res == DistDecideOp(config, read, n, now)
                 still == DistDecideOp(config, read, n,
                                       read.state.lastRefillTime)
             IN /\ res.r.allowed = still.r.allowed
                /\ res.r.remaining = still.r.remaining
                /\ res.r.remaining >= 0
                /\ res.state.lastRefillTime >= read.state.lastRefillTime

\* C34: DistributedTokenBucket.tryConsume rejects requested <= 0 and
\* requested > capacity with an error and writes nothing for them, so that
\* every stored state has 0 <= tokens <= capacity.
C34_DistConsumePreconditions ==
  Dist =>
    /\ \A i \in DOMAIN instances :
         LET config == instances[i].config
             read == GetState(storage, instances[i].key)
         IN \A n \in {a \in AmountInputs : a <= 0 \/ a > config.capacity} :
              LET res == DistDecideOp(config, read, n, now)
              IN ~res.write /\ res.r.err # ErrNone
    /\ \A k \in DOMAIN storage :
         storage[k].tokens >= 0 /\ storage[k].tokens <= storage[k].capacity

\* ------------------------------------------------------ two keys at a time
TwoKeys == {"k1", "k2"}
\* check's config argument: left out, or capacity MaxCap at 1 token a second
KeyConfigInputs == {NoConfig, MkConfig(MaxCap * Scale, 1, FALSE, 0)}

\* a TokenBucketRateLimiter without buckets, or two DistributedTokenBucket
\* instances with the keys "k1" and "k2" over one storage
InitKeys ==
  \/ Init /\ Limiter
  \/ InitDist

\* tryConsume(1) is called
DistTryConsumeOne(p) == DistTryConsumeStep(p, Scale) /\ UNCHANGED tally

\* the single-key calls of both classes, for one token, on either key
NextKeys ==
  \/ \E k \in TwoKeys, c \in KeyConfigInputs : Check(k, Scale, c)
  \/ \E k \in TwoKeys : AddTokens(k, Scale)
  \/ \E k \in TwoKeys : GetStats(k)
  \/ \E k \in TwoKeys : ResetBucket(k)
  \/ \E k \in TwoKeys : RemoveBucket(k)
  \/ \E p \in DOMAIN procs : DistTryConsumeOne(p)
  \/ \E p \in DOMAIN procs : DistSpin(p)
  \/ \E p \in DOMAIN procs : DistGetState(p)
  \/ \E p \in DOMAIN procs : DistDecide(p)
  \/ \E p \in DOMAIN procs : DistReturn(p)
  \/ Tick

SpecKeys == InitKeys /\ [][NextKeys]_vars

\* the step is a call of check, addTokens, getStats, resetBucket or
\* removeBucket
SingleKeyCall ==
  /\ Limiter
  /\ ret'.op \in {"check", "addTokens", "getStats", "resetBucket",
                  "removeBucket"}

\* C35: buckets of different keys are independent.  A check, addTokens,
\* getStats, resetBucket or removeBucket on one key leaves every bucket of
\* another key as it is, present or absent; a step of a tryConsume call of a
\* DistributedTokenBucket leaves the stored state and the lock of every other
\* key as they are; and a tryConsume call waits for the lock only when a call
\* of its own key holds it.
C35_KeysAreIndependent ==
  [][/\ SingleKeyCall =>
          \A k \in TwoKeys \ {ret'.key} :
            /\ Has(buckets', k) <=> Has(buckets, k)
            /\ Has(buckets, k) => buckets'[k] = buckets[k]
     /\ Dist =>
          \A p \in DOMAIN procs :
            procs'[p] # procs[p] =>
              /\ \A k \in TwoKeys \ {KeyOf(p)} :
                   /\ GetState(storage', k) = GetState(storage, k)
                   /\ Has(locks', k) <=> Has(locks, k)
                   /\ Has(locks, k) => locks'[k] = locks[k]
              /\ procs[p].pc = "idle" /\ procs'[p].pc = "spin" =>
                   Holders(KeyOf(p)) # {}
    ]_vars

\* calls on the two keys hold the two locks at one time, one of them having
\* written its key's state while the other key has none
C35_Witness ==
  /\ Dist
  /\ \E p, q \in DOMAIN procs :
       /\ KeyOf(p) # KeyOf(q)
       /\ procs[p].pc = "written" /\ procs[q].pc \in InLock
       /\ Has(storage, KeyOf(p)) /\ ~Has(storage, KeyOf(q))

\* two buckets of a TokenBucketRateLimiter that hold different amounts
TwoBucketsDiffer ==
  /\ Limiter /\ Has(buckets, "k1") /\ Has(buckets, "k2")
  /\ buckets["k1"].tokens # buckets["k2"].tokens

\* ------------------------- tryConsume calls on one key, a storage that may fail
\* `await this.storage.getState` rejects: the finally block unlocks and the
\* call rejects
DistGetStateRejects(p) ==
  /\ Dist /\ procs[p].pc = "locked"
  /\ locks' = Unlock(locks, KeyOf(p))
  /\ procs' = [procs EXCEPT ![p].pc = "done"]
  /\ ret' = Threw("DistributedTokenBucket.tryConsume", EmptyKey,
                  "getState rejected")
  /\ UNCHANGED <<subject, now, objVars, userVars, urlVars, instances, storage,
                 tally>>

\* `await this.storage.setState` rejects, nothing written: the finally block
\* unlocks and the call rejects
DistSetStateRejects(p) ==
  /\ Dist /\ procs[p].pc = "read"
  /\ DistDecideOp(ConfigOf(p), procs[p].read, procs[p].n, now).write
  /\ locks' = Unlock(locks, KeyOf(p))
  /\ procs' = [procs EXCEPT ![p].pc = "done"]
  /\ ret' = Threw("DistributedTokenBucket.tryConsume", EmptyKey,
                  "setState rejected")
  /\ UNCHANGED <<subject, now, objVars, userVars, urlVars, instances, storage,
                 tally>>

\* what a call made does next: the timer of its spin loop fires, or the
\* promise it awaits settles
DistProceed(p) ==
  \/ DistSpin(p)
  \/ DistGetState(p)
  \/ DistGetStateRejects(p)
  \/ DistDecide(p)
  \/ DistSetStateRejects(p)
  \/ DistReturn(p)

NextDistLive ==
  \/ \E p \in DOMAIN procs : DistTryConsumeOne(p)
  \/ \E p \in DOMAIN procs : DistSpin(p)
  \/ \E p \in DOMAIN procs : DistGetState(p)
  \/ \E p \in DOMAIN procs : DistGetStateRejects(p)
  \/ \E p \in DOMAIN procs : DistDecide(p)
  \/ \E p \in DOMAIN procs : DistSetStateRejects(p)
  \/ \E p \in DOMAIN procs : DistReturn(p)

\* The event loop runs every timer that is due and every continuation whose
\* promise has settled; whether a call is made at all is up to the caller.
SpecDistLive ==
  /\ InitDistBurst
  /\ [][NextDistLive]_vars
  /\ \A p \in 1..DistCalls : WF_vars(DistProceed(p))

\* C36: every tryConsume call made returns or rejects, the key's lock is
\* held exactly while one call is between the return of lock and its finally
\* block, whichever way the call ends, and at most one call is there at a
\* time: a waiting lock(key) is granted only after the holder's unlock.
C36_EveryCallReturns ==
  /\ [](Dist => \A k \in DistKeys :
                  /\ Cardinality(Holders(k)) <= 1
                  /\ Held(locks, k) <=> Holders(k) # {})
  /\ \A p \in 1..DistCalls :
       (Dist /\ procs[p].pc \notin {"idle", "done"}) ~> (procs[p].pc = "done")

\* a call has ended with a rejection, a second holds the lock and the third
\* waits for it in the spin loop
C36_Witness ==
  /\ Dist /\ ret.err # ErrNone
  /\ \E p, q, w \in DOMAIN procs :
       /\ procs[p].pc = "done"
       /\ procs[q].pc \in InLock
       /\ procs[w].pc = "spin"

\* the moments at or after retryAfter seconds from t that are tried
RetryTimes(t, retryAfter) == {t + retryAfter * Scale + d : d \in {0, HalfSecond}}

\* a check denied now is allowed when it is repeated once its retryAfter
\* has passed, nothing else touching the bucket
CheckRetrySucceeds(a) ==
  LET res == CheckOp(buckets, a[1], a[2], a[3], now) IN
  res.r.err = ErrNone /\ ~res.r.allowed =>
    \A t \in RetryTimes(now, res.r.retryAfter) :
      LET again == CheckOp(res.b, a[1], a[2], a[3], t)
      IN again.r.err = ErrNone /\ again.r.allowed

\* the same of a TokenBucket.tryConsume whose callback runs now
TryConsumeRetrySucceeds(n) ==
  LET res == TBTryConsumeCb(tb, n, now) IN
  TBTryConsumeCall(tb, n) = ErrNone /\ ~res.r.allowed =>
    \A t \in RetryTimes(now, res.r.retryAfter) :
      TBTryConsumeCb(res.tb, n, t).r.allowed

\* C37: the retryAfter hint is sufficient.  A check(key, n) or tryConsume(n)
\* denied at time T with retryAfter r is allowed when the same request is
\* made at a time >= T + r seconds, no other call touching the bucket in
\* between.
C37_RetryAfterSufficient ==
  /\ Limiter => \A a \in CheckInputs : CheckRetrySucceeds(a)
  /\ Bucket /\ tb.alive /\ tbQueue = << >> =>
       \A n \in AmountInputs : TryConsumeRetrySucceeds(n)

\* what of it holds: requests within the capacity, on a bucket whose last
\* refill is not ahead of the clock
RetryAfterSufficientWithin ==
  /\ Limiter =>
       \A a \in CheckInputs :
         Has(buckets, a[1]) /\ buckets[a[1]].lastRefill <= now
           /\ a[2] <= buckets[a[1]].config.capacity
         => CheckRetrySucceeds(a)
  /\ Bucket /\ tb.alive /\ tbQueue = << >> /\ tb.lastRefillTime <= now =>
       \A n \in AmountInputs : TryConsumeRetrySucceeds(n)

\* a tryConsume(n) of instance i that is denied now is allowed when it is
\* repeated once its retryAfter has passed; a denied call writes nothing, so
\* the repeated call reads what the denied one read
DistRetrySucceeds(i, n) ==
  LET config == instances[i].config
      read == GetState(storage, instances[i].key)
      res == DistDecideOp(config, read, n, now)
  IN ~res.r.allowed =>
       \A t \in RetryTimes(now, res.r.retryAfter) :
         DistDecideOp(config, read, n, t).r.allowed

\* C38: a DistributedTokenBucket.tryConsume(n), 0 < n <= capacity, denied at
\* time T with retryAfter r is allowed when it is made again at a time
\* >= T + r seconds, no other caller consuming from the key in between; this
\* includes the first access to a key, whatever initialTokens is.
C38_DistRetryAfterSufficient ==
  Dist =>
    \A i \in DOMAIN instances :
      \A n \in {a \in AmountInputs : a > 0 /\ a <= instances[i].config.capacity} :
        DistRetrySucceeds(i, n)

\* what of it holds: keys that have a stored state whose lastRefillTime is
\* not ahead of the clock
DistRetrySufficientStored ==
  Dist =>
    \A i \in DOMAIN instances :
      Has(storage, instances[i].key)
        /\ storage[instances[i].key].lastRefillTime <= now =>
      \A n \in {a \in AmountInputs : a > 0 /\ a <= instances[i].config.capacity} :
        DistRetrySucceeds(i, n)

\* ------------------------------- the tokens one bucket grants in a window
\* tally holds a window of the run: whether it has begun, the Date.now() at
\* which it began and the tokens that allowed checks have granted since.
NoWindow == [open |-> FALSE, since |-> 0, granted |-> 0]

InitRate ==
  /\ subject = "TokenBucketRateLimiter"
  /\ now \in Times
  /\ buckets = << >> /\ tb = NoBucket /\ tbQueue = << >>
  /\ ret = Returned("new", EmptyKey)
  /\ tally = NoWindow
  /\ ExtIdle

\* the argument lists of check tried: on a bucket that exists, where check
\* only validates its config argument, the argument is left out
RateInputs == {a \in CheckInputs : Has(buckets, a[1]) => a[3] = NoConfig}

\* before the window any call may be made on the bucket
RateBefore ==
  /\ ~tally.open
  /\ \/ \E a \in RateInputs : Check(a[1], a[2], a[3])
     \/ \E k \in Keys, n \in AmountInputs : AddTokens(k, n)
     \/ \E k \in Keys : ResetBucket(k)
     \/ \E k \in Keys : RemoveBucket(k)

\* T1: the window begins
RateMark ==
  /\ Limiter /\ ~tally.open
  /\ tally' = [open |-> TRUE, since |-> now, granted |-> 0]
  /\ ret' = Returned("mark", EmptyKey)
  /\ UNCHANGED <<extVars, subject, now, buckets, tb, tbQueue>>

\* a check within the window, of any size: what it grants is counted
RateCheck(bucketKey, tokensRequired, config) ==
  /\ tally.open
  /\ Has(buckets, bucketKey) => buckets[bucketKey].blocked < MaxBlocked
  /\ CheckStep(bucketKey, tokensRequired, config)
  /\ tally' = IF ret'.err = ErrNone /\ ret'.allowed
              THEN [tally EXCEPT !.granted = @ + tokensRequired]
              ELSE tally

\* the clock does not go back
RateTick == Tick /\ now' > now

NextRate ==
  \/ RateBefore
  \/ RateMark
  \/ \E a \in RateInputs : RateCheck(a[1], a[2], a[3])
  \/ \E k \in Keys : GetStats(k)
  \/ GetAllStats
  \/ RateTick

SpecRate == InitRate /\ [][NextRate]_vars

NoPlain == [plain |-> << >>, r |-> Returned("new", EmptyKey), read |-> FALSE]

InitStats ==
  /\ subject = "TokenBucketRateLimiter"
  /\ now \in Times
  /\ buckets = << >> /\ tb = NoBucket /\ tbQueue = << >>
  /\ ret = Returned("new", EmptyKey)
  /\ tally = NoPlain
  /\ ExtIdle

\* check on both limiters
StatsCheck(bucketKey, tokensRequired, config) ==
  /\ Has(buckets, bucketKey) =>
       /\ buckets[bucketKey].blocked < MaxBlocked
       /\ buckets[bucketKey].consumed < MaxConsumed * Scale
  /\ CheckStep(bucketKey, tokensRequired, config)
  /\ LET res == CheckOp(tally.plain, bucketKey, tokensRequired, config, now)
     IN tally' = [tally EXCEPT !.plain = res.b, !.r = res.r]

\* addTokens on both limiters
StatsAddTokens(bucketKey, tokens) ==
  /\ Limiter
  /\ LET res == AddTokensOp(buckets, bucketKey, tokens)
     IN buckets' = res.b /\ ret' = res.r
  /\ LET res == AddTokensOp(tally.plain, bucketKey, tokens)
     IN tally' = [tally EXCEPT !.plain = res.b, !.r = res.r]
  /\ UNCHANGED <<extVars, subject, now, tb, tbQueue>>

\* getStats and getAllStats, on the first limiter only
StatsRead(res) ==
  /\ Limiter
  /\ buckets' = res.b /\ ret' = res.r
  /\ tally' = [tally EXCEPT !.read = @ \/ res.b # buckets]
  /\ UNCHANGED <<extVars, subject, now, tb, tbQueue>>

StatsGetStats(bucketKey) == StatsRead(GetStatsOp(buckets, bucketKey, now))
StatsGetAllStats == StatsRead(GetAllStatsOp(buckets, now))

NextStats ==
  \/ \E a \in RateInputs : StatsCheck(a[1], a[2], a[3])
  \/ \E k \in Keys, n \in AmountInputs : StatsAddTokens(k, n)
  \/ \E k \in Keys : StatsGetStats(k)
  \/ StatsGetAllStats
  \/ RateTick

SpecStats == InitStats /\ [][NextStats]_vars

====
